---- MODULE Spec2Model ----
(***************************************************************************)
(* Change detection and notification routing of the AI model release       *)
(* watcher: the leaderboard ranking differ, the per-source diff protocol,  *)
(* the check orchestrator (WatcherService.check_all) and the event router  *)
(* (WatcherService.run_once).                                              *)
(*                                                                         *)
(* Titles, descriptions, urls and timestamps of events are display data    *)
(* and are not carried; every other field of an event is.                  *)
(***************************************************************************)
EXTENDS Integers, Sequences, FiniteSets, TLC

(***************************************************************************)
(* Values shared by all watchers                                           *)
(***************************************************************************)

\* Python None / JSON null in a numeric field (ranks and ELO are >= 0).
None == -1

ANNOUNCED == "announced"
LAUNCHED == "launched"
UPDATED == "updated"
UNKNOWN == "unknown"

\* extra_data keys an event does not set (dict.get gives None for them).
NoExtra ==
    [leaderboard |-> "", action |-> "", creator |-> "",
     rank |-> None, elo |-> None,
     previous_rank |-> None, current_rank |-> None,
     previous_elo |-> None, current_elo |-> None,
     direction |-> "", change |-> None, elo_change |-> 0,
     previous_top3 |-> <<>>, current_top3 |-> <<>>,
     item_id |-> "", sha |-> None, tag |-> None, prerelease |-> FALSE,
     has_assets |-> FALSE, description_is_none |-> FALSE, is_priority |-> FALSE]

\* WatchEvent(...): release_stage defaults to UNKNOWN at the call sites that
\* do not pass it.
WatchEvent(source, event_type, model_name, release_stage, extra) ==
    [source |-> source, event_type |-> event_type, model_name |-> model_name,
     release_stage |-> release_stage] @@ extra @@ NoExtra

Abs(x) == IF x < 0 THEN 0 - x ELSE x

Range(s) == {s[i] : i \in 1..Len(s)}

\* Every order in which the elements of a Python set may be iterated.
Orderings(S) ==
    {s \in [1..Cardinality(S) -> S] :
        \A i, j \in 1..Cardinality(S) : i # j => s[i] # s[j]}

(***************************************************************************)
(* Leaderboard watcher                                                     *)
(***************************************************************************)

ENDPOINTS ==
    {"text-to-image", "image-editing", "text-to-video", "image-to-video",
     "text-to-speech"}

\* leaderboard_config['max_rank'] of the modelled configuration.
max_rank == 2

\* self.max_rank of the LeaderboardWatcher, set once by its constructor, and
\* whether its self.api_key is set (a missing key is the empty string); its
\* self.leaderboards_to_watch with the requests and delays of a call.
VARIABLES lb_max_rank, lb_api_key, lb_fetches

\* check_updates was not called to see its requests and delays.
NoFetches == [leaderboards_to_watch |-> <<>>, called |-> FALSE, steps |-> <<>>]

\* The rank threshold of the top-3 list and the length it is cut to.
Top3Rank == 3
Top3Len == 3

\* state.get("leaderboard_<board>", {}) of a board never stored.
NoSnapshot == [present |-> FALSE, rankings |-> {}, models |-> <<>>, top3 |-> <<>>]

\* The watcher state {} : no board has a snapshot.
EmptyLBState == [b \in ENDPOINTS |-> NoSnapshot]

HasRanking(rankings, m) == \E e \in rankings : e.name = m
RankingOf(rankings, m) == CHOOSE e \in rankings : e.name = m

\* rankings.get(m, {}).get('rank', 99)
RankOr99(rankings, m) == IF HasRanking(rankings, m) THEN RankingOf(rankings, m).rank ELSE 99

TrackedEntries_NoFilter(models_data) == models_data

\* The loop's filter: entries with rank > self.max_rank are skipped.
TrackedEntries(models_data) ==
    SelectSeq(models_data, LAMBDA m : ~(m.rank > lb_max_rank))

\* current_rankings: a dict, so the last tracked entry of a name wins.
CurrentRankings(tracked) ==
    {tracked[i] : i \in {j \in 1..Len(tracked) :
        \A k \in (j + 1)..Len(tracked) : tracked[k].name # tracked[j].name}}

\* current_models: one name per tracked entry, in the order fetched.
CurrentModels(tracked) == [i \in 1..Len(tracked) |-> tracked[i].name]

\* The keys of current_rankings in insertion order (first occurrence).
RECURSIVE Dedup(_, _)
Dedup(names, seen) ==
    IF names = <<>> THEN <<>>
    ELSE IF Head(names) \in seen THEN Dedup(Tail(names), seen)
    ELSE <<Head(names)>> \o Dedup(Tail(names), seen \cup {Head(names)})

RankingKeys(tracked) == Dedup(CurrentModels(tracked), {})

\* list.sort(key = rank) is stable: m goes after every element of rank <= its own.
RECURSIVE InsertByRank(_, _, _)
InsertByRank(sorted, m, rankings) ==
    IF sorted = <<>> THEN <<m>>
    ELSE IF RankOr99(rankings, Head(sorted)) <= RankOr99(rankings, m)
         THEN <<Head(sorted)>> \o InsertByRank(Tail(sorted), m, rankings)
         ELSE <<m>> \o sorted

RECURSIVE SortByRank(_, _)
SortByRank(ms, rankings) ==
    IF ms = <<>> THEN <<>>
    ELSE InsertByRank(SortByRank(SubSeq(ms, 1, Len(ms) - 1), rankings),
                      ms[Len(ms)], rankings)

\* current_top3 before it is cut: the models of rank <= 3, sorted by rank.
CurrentTop3(current_models, rankings) ==
    SortByRank(SelectSeq(current_models, LAMBDA m : RankOr99(rankings, m) <= Top3Rank),
               rankings)

Prefix(s, n) == SubSeq(s, 1, IF Len(s) < n THEN Len(s) ELSE n)

\* model_info = current_rankings.get(model_name, {}), read with .get
InfoOrEmpty(rankings, m) ==
    IF HasRanking(rankings, m) THEN RankingOf(rankings, m)
    ELSE [name |-> m, rank |-> None, elo |-> None, creator |-> ""]

NewEntryEvent(board_name, rankings, model_name) ==
    LET info == InfoOrEmpty(rankings, model_name)
    IN  WatchEvent("leaderboard", "leaderboard_new_entry", model_name, UNKNOWN,
            [leaderboard |-> board_name, rank |-> info.rank, elo |-> info.elo,
             creator |-> info.creator, action |-> "new_entry"])

Direction_Swapped(prev_rank, curr_rank) == IF curr_rank > prev_rank THEN "up" ELSE "down"

Direction(prev_rank, curr_rank) == IF curr_rank < prev_rank THEN "up" ELSE "down"

RankChangeEvent(board_name, prev_info, current_info) ==
    WatchEvent("leaderboard", "leaderboard_rank_change", current_info.name, UNKNOWN,
        [leaderboard |-> board_name,
         previous_rank |-> prev_info.rank, current_rank |-> current_info.rank,
         previous_elo |-> prev_info.elo, current_elo |-> current_info.elo,
         direction |-> Direction(prev_info.rank, current_info.rank),
         change |-> Abs(prev_info.rank - current_info.rank),
         elo_change |-> current_info.elo - prev_info.elo])

Top3Event(board_name, previous_top3, current_top3) ==
    WatchEvent("leaderboard", "leaderboard_top3_change", "Top 3", UNKNOWN,
        [leaderboard |-> board_name, previous_top3 |-> previous_top3,
         current_top3 |-> Prefix(current_top3, Top3Len)])

\* The loop over current_rankings.items(): one event per model whose rank
\* differs from its previous rank.  curr_elo - prev_elo on a None ELO raises
\* TypeError, which ends the loop with the events appended so far.
RECURSIVE RankChangeScan(_, _, _, _)
RankChangeScan(board_name, keys, current_rankings, previous_rankings) ==
    IF keys = <<>> THEN [events |-> <<>>, raised |-> FALSE]
    ELSE LET m == Head(keys)
             cur == RankingOf(current_rankings, m)
         IN  IF ~HasRanking(previous_rankings, m)
                \/ RankingOf(previous_rankings, m).rank = cur.rank
             THEN RankChangeScan(board_name, Tail(keys), current_rankings, previous_rankings)
             ELSE LET prev == RankingOf(previous_rankings, m)
                  IN  IF cur.elo = None \/ prev.elo = None
                      THEN [events |-> <<>>, raised |-> TRUE]
                      ELSE LET rest == RankChangeScan(board_name, Tail(keys),
                                                      current_rankings, previous_rankings)
                           IN  [events |-> <<RankChangeEvent(board_name, prev, cur)>>
                                           \o rest.events,
                                raised |-> rest.raised]

NewModels_Reversed(previous_data, tracked) ==
    Range(previous_data.models) \ Range(CurrentModels(tracked))

\* current_models_set - previous_models
NewModels(previous_data, tracked) ==
    Range(CurrentModels(tracked)) \ Range(previous_data.models)

\* _check_leaderboard_api for one response.  order is the iteration order of
\* the set new_models.  outcome names the branch taken.
CheckLeaderboardApi(board_name, state, response, order) ==
    IF response.kind = "transport_error"
    THEN [events |-> <<>>, state |-> state, outcome |-> "transport_error"]
    ELSE IF response.status # 200
    THEN [events |-> <<>>, state |-> state, outcome |-> "http_error"]
    ELSE IF response.data = <<>>
    THEN [events |-> <<>>, state |-> state, outcome |-> "no_data"]
    ELSE
    LET tracked == TrackedEntries(response.data)
        current_rankings == CurrentRankings(tracked)
        current_models == CurrentModels(tracked)
        previous_data == state[board_name]
        new_events == [i \in 1..Len(order) |->
                          NewEntryEvent(board_name, current_rankings, order[i])]
        scan == IF previous_data.rankings # {}
                THEN RankChangeScan(board_name, RankingKeys(tracked), current_rankings,
                                    previous_data.rankings)
                ELSE [events |-> <<>>, raised |-> FALSE]
        current_top3 == CurrentTop3(current_models, current_rankings)
        top3_events == IF previous_data.top3 # <<>> /\ current_top3 # previous_data.top3
                       THEN <<Top3Event(board_name, previous_data.top3, current_top3)>>
                       ELSE <<>>
    IN  IF scan.raised
        THEN [events |-> new_events \o scan.events, state |-> state,
              outcome |-> "processing_error"]
        ELSE [events |-> new_events \o scan.events \o top3_events,
              state |-> [state EXCEPT ![board_name] =
                            [present |-> TRUE, rankings |-> current_rankings,
                             models |-> current_models,
                             top3 |-> Prefix(current_top3, Top3Len)]],
              outcome |-> "updated"]

\* Every result of _check_leaderboard_api: one per iteration order of new_models.
CheckLeaderboardApiResults(board_name, state, response) ==
    LET fetched == response.kind = "http" /\ response.status = 200
        new == IF fetched
               THEN NewModels(state[board_name], TrackedEntries(response.data))
               ELSE {}
    IN  {CheckLeaderboardApi(board_name, state, response, order) : order \in Orderings(new)}

\* The loop of check_updates over leaderboards_to_watch; log keeps, per board
\* fetched, the branch taken and the events that board added.
RECURSIVE LBBoardLoop(_, _, _)
LBBoardLoop(boards, state, responses) ==
    IF boards = <<>> THEN {[events |-> <<>>, state |-> state, log |-> <<>>]}
    ELSE IF Head(boards) \notin ENDPOINTS
    THEN LBBoardLoop(Tail(boards), state, responses)
    ELSE UNION {
        {[events |-> r.events \o rest.events, state |-> rest.state,
          log |-> <<[board |-> Head(boards), outcome |-> r.outcome,
                     events |-> r.events]>> \o rest.log] :
            rest \in LBBoardLoop(Tail(boards), r.state, responses)} :
        r \in CheckLeaderboardApiResults(Head(boards), state, responses[Head(boards)])}

CopyState_Aliased(last_check_state, empty) ==
    [st |-> IF last_check_state.present THEN last_check_state.st ELSE empty,
     shares_prior |-> last_check_state.present]

\* new_state = last_check_state.copy() if last_check_state else {}: the
\* mapping check_updates writes to, with the contents st of the prior state
\* or of the empty state.  shares_prior tells whether that mapping is the
\* caller's own object; a copy and a new {} are not.
CopyState(last_check_state, empty) ==
    [st |-> IF last_check_state.present THEN last_check_state.st ELSE empty,
     shares_prior |-> FALSE]

\* The contents of the caller's prior state once check_updates has left
\* `written` in the mapping new_state it worked on: the writes are
\* assignments to keys of new_state, which reach the caller's mapping only
\* when the two are one object.
PriorAfter(last_check_state, new_state, written) ==
    IF new_state.shares_prior THEN written ELSE last_check_state.st

LBCheckUpdates_KeyIgnored(boards, has_api_key, last_check_state, responses) ==
    LBBoardLoop(boards,
                IF last_check_state.present THEN last_check_state.st ELSE EmptyLBState,
                responses)

\* LeaderboardWatcher.check_updates.  last_check_state is [present, st]:
\* present = FALSE is Python None.
LBCheckUpdates(boards, has_api_key, last_check_state, responses) ==
    LET new_state == CopyState(last_check_state, EmptyLBState).st
    IN  IF ~has_api_key
        THEN {[events |-> <<>>, state |-> new_state, log |-> <<>>]}
        ELSE LBBoardLoop(boards, new_state, responses)

(***************************************************************************)
(* arXiv watcher                                                           *)
(*                                                                         *)
(* seen_paper_ids is read into a set and written back from a set, so its   *)
(* order carries nothing.  A state keeps the IDs of the papers the         *)
(* upstream can still list (ids) and the number of the other IDs it holds  *)
(* (old): papers that left the window of the 10 most recent for good.      *)
(* A paper's id, the first 16 hex digits of the MD5 of its arXiv id, is    *)
(* taken to be distinct for distinct papers.                               *)
(***************************************************************************)

\* list(seen_ids)[-100:]
SeenCap == 100

\* The state {}: no seen_paper_ids key.
AxEmptyState == [has_seen |-> FALSE, old |-> 0, ids |-> {}]

AxAbsent == [present |-> FALSE, st |-> AxEmptyState]

\* list(seen)[-cap:] : a set is listed in hash order, so any cap of its
\* elements may be the ones kept.
KeepLast(seen, cap) ==
    LET excess == seen.old + Cardinality(seen.ids) - cap
    IN  IF excess <= 0 THEN {seen}
        ELSE {[seen EXCEPT !.ids = seen.ids \ D,
                           !.old = seen.old - (excess - Cardinality(D))] :
                 D \in {X \in SUBSET seen.ids :
                           /\ Cardinality(X) <= excess
                           /\ excess - Cardinality(X) <= seen.old}}

NewPaperEvent(model_name, paper_id) ==
    WatchEvent("arxiv", "new_paper", model_name, UNKNOWN, [item_id |-> paper_id])

\* The loop over papers: an event for each paper whose id is not yet seen.
RECURSIVE NewPaperScan(_, _, _)
NewPaperScan(model_name, papers, seen_ids) ==
    IF papers = <<>> THEN [events |-> <<>>, seen_ids |-> seen_ids]
    ELSE IF Head(papers) \in seen_ids
         THEN NewPaperScan(model_name, Tail(papers), seen_ids)
         ELSE LET rest == NewPaperScan(model_name, Tail(papers),
                                       seen_ids \cup {Head(papers)})
              IN  [events |-> <<NewPaperEvent(model_name, Head(papers))>> \o rest.events,
                   seen_ids |-> rest.seen_ids]

\* ArxivWatcher.check_updates with a search query configured: every result
\* [raised, events, state] the call can have.  The body of a 200 response is
\* [well_formed, empty_title, papers]: XML that does not parse gives no
\* papers; an entry whose title element has no text raises AttributeError in
\* _parse_arxiv_response, which check_updates does not catch.
ArxivCheckUpdates(model_name, last_check_state, response) ==
    LET new_state == IF last_check_state.present THEN last_check_state.st
                     ELSE AxEmptyState
        unchanged == {[raised |-> FALSE, events |-> <<>>, state |-> new_state]}
    IN  IF response.kind = "transport_error" THEN unchanged
        ELSE IF response.status # 200 THEN unchanged
        ELSE IF response.data.well_formed /\ response.data.empty_title
        THEN {[raised |-> TRUE, events |-> <<>>, state |-> new_state]}
        ELSE LET papers == IF response.data.well_formed THEN response.data.papers
                           ELSE <<>>
                 scan == NewPaperScan(model_name, papers, new_state.ids)
                 seen == [has_seen |-> TRUE, old |-> new_state.old,
                          ids |-> scan.seen_ids]
             IN  {[raised |-> FALSE, events |-> scan.events, state |-> kept] :
                     kept \in KeepLast(seen, SeenCap)}

(***************************************************************************)
(* GitHub watcher                                                          *)
(*                                                                         *)
(* A text is the sequence of its characters.                               *)
(***************************************************************************)

UpperCase ==
    <<"A", "B", "C", "D", "E", "F", "G", "H", "I", "J", "K", "L", "M", "N", "O", "P", "Q", "R", "S", "T", "U", "V", "W", "X", "Y", "Z">>

LowerCase ==
    <<"a", "b", "c", "d", "e", "f", "g", "h", "i", "j", "k", "l", "m", "n", "o", "p", "q", "r", "s", "t", "u", "v", "w", "x", "y", "z">>

\* str.lower() on one character (ASCII letters).
Lower(c) ==
    IF \E i \in DOMAIN UpperCase : UpperCase[i] = c
    THEN LowerCase[CHOOSE i \in DOMAIN UpperCase : UpperCase[i] = c]
    ELSE c

TextLower(text) == [i \in 1..Len(text) |-> Lower(text[i])]

\* keyword in text
Contains(text, keyword) ==
    \E i \in 0..(Len(text) - Len(keyword)) :
        \A j \in 1..Len(keyword) : text[i + j] = keyword[j]

ANNOUNCEMENT_KEYWORDS ==
    <<<<"c", "o", "m", "i", "n", "g", " ", "s", "o", "o", "n">>,
      <<"a", "n", "n", "o", "u", "n", "c", "i", "n", "g">>,
      <<"p", "r", "e", "v", "i", "e", "w">>,
      <<"t", "e", "a", "s", "e", "r">>,
      <<"u", "p", "c", "o", "m", "i", "n", "g">>,
      <<"w", "i", "l", "l", " ", "b", "e", " ", "r", "e", "l", "e", "a", "s", "e", "d">>,
      <<"s", "t", "a", "y", " ", "t", "u", "n", "e", "d">>,
      <<"s", "n", "e", "a", "k", " ", "p", "e", "e", "k">>,
      <<"r", "o", "a", "d", "m", "a", "p">>,
      <<"p", "l", "a", "n", "n", "e", "d">>,
      <<"e", "x", "p", "e", "c", "t", "e", "d">>,
      <<"e", "t", "a">>,
      <<"w", "i", "p">>,
      <<"w", "o", "r", "k", " ", "i", "n", " ", "p", "r", "o", "g", "r", "e", "s", "s">>,
      <<"a", "l", "p", "h", "a">>,
      <<"b", "e", "t", "a">>,
      <<"r", "c">>,
      <<"r", "e", "l", "e", "a", "s", "e", " ", "c", "a", "n", "d", "i", "d", "a", "t", "e">>,
      <<"p", "r", "e", "-", "r", "e", "l", "e", "a", "s", "e">>>>

LAUNCH_KEYWORDS ==
    <<<<"r", "e", "l", "e", "a", "s", "e", "d">>,
      <<"a", "v", "a", "i", "l", "a", "b", "l", "e", " ", "n", "o", "w">>,
      <<"v", "1", ".">>,
      <<"v", "2", ".">>,
      <<"s", "t", "a", "b", "l", "e">>,
      <<"p", "r", "o", "d", "u", "c", "t", "i", "o", "n", " ", "r", "e", "a", "d", "y">>,
      <<"r", "e", "a", "d", "y", " ", "t", "o", " ", "u", "s", "e">>,
      <<"d", "o", "w", "n", "l", "o", "a", "d", " ", "n", "o", "w">>,
      <<"i", "n", "s", "t", "a", "l", "l">>,
      <<"p", "i", "p", " ", "i", "n", "s", "t", "a", "l", "l">>,
      <<"w", "e", "i", "g", "h", "t", "s", " ", "r", "e", "l", "e", "a", "s", "e", "d">>>>

ContainsAny(text, keywords) ==
    \E k \in DOMAIN keywords : Contains(text, keywords[k])

DetectReleaseStage_LaunchFirst(text, is_prerelease) ==
    IF text = <<>> THEN UNKNOWN
    ELSE IF is_prerelease THEN ANNOUNCED
    ELSE IF ContainsAny(TextLower(text), LAUNCH_KEYWORDS) THEN LAUNCHED
    ELSE IF ContainsAny(TextLower(text), ANNOUNCEMENT_KEYWORDS) THEN ANNOUNCED
    ELSE UNKNOWN

\* _detect_release_stage: a None text is passed as the empty text, both
\* being falsy.
DetectReleaseStage(text, is_prerelease) ==
    IF text = <<>> THEN UNKNOWN
    ELSE IF is_prerelease THEN ANNOUNCED
    ELSE IF ContainsAny(TextLower(text), ANNOUNCEMENT_KEYWORDS) THEN ANNOUNCED
    ELSE IF ContainsAny(TextLower(text), LAUNCH_KEYWORDS) THEN LAUNCHED
    ELSE UNKNOWN

\* The state {}: None stands for a key that is not there.
GHEmptyState ==
    [last_commit_sha |-> None, last_release_id |-> None,
     repo_known |-> FALSE, repo_created_at |-> None]

GHAbsent == [present |-> FALSE, st |-> GHEmptyState]

\* new_commits[:5]
MaxCommitEvents == 5

Min(a, b) == IF a <= b THEN a ELSE b

\* The items of a list before the first whose key is last (all of them when
\* there is none): the loops that break at the stored sha or release id.
RECURSIVE Before(_, _, _)
Before(items, key, last) ==
    IF items = <<>> \/ Head(items)[key] = last THEN <<>>
    ELSE <<Head(items)>> \o Before(Tail(items), key, last)

CommitEvent(model_name, commit) ==
    WatchEvent("github", "new_commit", model_name,
               DetectReleaseStage(commit.message, FALSE), [sha |-> commit.sha])

CheckCommits_NoCap(model_name, state, response) ==
    IF response.kind = "transport_error" \/ response.status # 200
       \/ response.data = <<>>
    THEN [events |-> <<>>, state |-> state]
    ELSE LET new_commits == Before(response.data, "sha", state.last_commit_sha)
         IN  [events |-> IF state.last_commit_sha # None
                            /\ response.data[1].sha # state.last_commit_sha
                         THEN [i \in DOMAIN new_commits |->
                                  CommitEvent(model_name, new_commits[i])]
                         ELSE <<>>,
              state |-> [state EXCEPT !.last_commit_sha = response.data[1].sha]]

\* _check_commits: [events, state].  A commit is [sha, message].
CheckCommits(model_name, state, response) ==
    IF response.kind = "transport_error" \/ response.status # 200
       \/ response.data = <<>>
    THEN [events |-> <<>>, state |-> state]
    ELSE LET commits == response.data
             last_commit_sha == state.last_commit_sha
             latest_sha == commits[1].sha
             new_commits == Before(commits, "sha", last_commit_sha)
             events ==
                 IF last_commit_sha # None /\ latest_sha # last_commit_sha
                 THEN [i \in 1..Min(Len(new_commits), MaxCommitEvents) |->
                          CommitEvent(model_name, new_commits[i])]
                 ELSE <<>>
         IN  [events |-> events,
              state |-> [state EXCEPT !.last_commit_sha = latest_sha]]

\* f"{name} {body}"
ReleaseText(release) == release.name \o <<" ">> \o release.body

ReleaseStageOf(release) ==
    IF release.assets /\ ~release.prerelease THEN LAUNCHED
    ELSE DetectReleaseStage(ReleaseText(release), release.prerelease)

EventTypeOf(release_stage) ==
    IF release_stage = LAUNCHED THEN "release_launched" ELSE "release_announced"

ReleaseEvent(model_name, release) ==
    WatchEvent("github", EventTypeOf(ReleaseStageOf(release)), model_name,
               ReleaseStageOf(release),
               [tag |-> release.tag_name, prerelease |-> release.prerelease,
                has_assets |-> release.assets])

\* _check_releases: [raised, events, state].  A release is
\* [id, tag_name, name, body, prerelease, assets, dated]: assets says the
\* asset list is not empty, dated that published_at or created_at is a
\* string.  With neither date, published_at.replace raises AttributeError,
\* which the except clause for RequestException does not catch.
CheckReleases(model_name, state, response) ==
    IF response.kind = "transport_error" \/ response.status # 200
       \/ response.data = <<>>
    THEN [raised |-> FALSE, events |-> <<>>, state |-> state]
    ELSE LET releases == response.data
             last_release_id == state.last_release_id
             latest_id == releases[1].id
             new_releases ==
                 IF last_release_id # None /\ latest_id # last_release_id
                 THEN Before(releases, "id", last_release_id)
                 ELSE <<>>
         IN  IF \E i \in DOMAIN new_releases : ~new_releases[i].dated
             THEN [raised |-> TRUE, events |-> <<>>, state |-> state]
             ELSE [raised |-> FALSE,
                   events |-> [i \in DOMAIN new_releases |->
                                  ReleaseEvent(model_name, new_releases[i])],
                   state |-> [state EXCEPT !.last_release_id = latest_id]]

\* _has_releases
HasReleases(response) ==
    /\ response.kind = "http"
    /\ response.status = 200
    /\ Len(response.data) > 0

\* The stage of a discovered repository.
RepoStageOf(description, has_releases) ==
    IF has_releases THEN LAUNCHED
    ELSE IF DetectReleaseStage(description, FALSE) = UNKNOWN THEN ANNOUNCED
    ELSE DetectReleaseStage(description, FALSE)

RepoEvent(model_name, repo_data, has_releases) ==
    WatchEvent("github",
               EventTypeOf(RepoStageOf(repo_data.description, has_releases)),
               model_name, RepoStageOf(repo_data.description, has_releases),
               [description_is_none |-> repo_data.description_is_none])

\* _check_repo_exists: [raised, events, state], events holding the event or
\* nothing.  repo_data is [created_at, description, description_is_none];
\* created_at = None stands for a missing or null created_at, on which
\* repo_data['created_at'].replace raises (KeyError or AttributeError) after
\* the state was written to.
CheckRepoExists(model_name, state, response, releases_response) ==
    IF state.repo_known \/ response.kind = "transport_error" \/ response.status # 200
    THEN [raised |-> FALSE, events |-> <<>>, state |-> state]
    ELSE LET repo_data == response.data
             known == [state EXCEPT !.repo_known = TRUE,
                                    !.repo_created_at = repo_data.created_at]
         IN  IF repo_data.created_at = None
             THEN [raised |-> TRUE, events |-> <<>>, state |-> known]
             ELSE [raised |-> FALSE,
                   events |-> <<RepoEvent(model_name, repo_data,
                                          HasReleases(releases_response))>>,
                   state |-> known]

\* GitHubWatcher.check_updates with a repository configured: [raised, events,
\* state].  responses holds the answer to each request: commits, releases,
\* repo and has_releases (the one-release listing of _has_releases).
GitHubCheckUpdates(model_name, last_check_state, responses) ==
    LET new_state == CopyState(last_check_state, GHEmptyState).st
        c == CheckCommits(model_name, new_state, responses.commits)
        r == CheckReleases(model_name, c.state, responses.releases)
        x == CheckRepoExists(model_name, r.state, responses.repo,
                             responses.has_releases)
    IN  IF r.raised \/ x.raised
        THEN [raised |-> TRUE, events |-> <<>>, state |-> new_state]
        ELSE [raised |-> FALSE, events |-> c.events \o r.events \o x.events,
              state |-> x.state]

(***************************************************************************)
(* Configuration, state store and notifier                                 *)
(***************************************************************************)

\* str.lower() on the model names that occur.
StrLower(name) ==
    CASE name = "Z-Image" -> "z-image"
      [] name = "Flux" -> "flux"
      [] name = "B" -> "b"
      [] OTHER -> name

\* Config.get_priority_config: the first priority model of that name;
\* found = FALSE is None.
GetPriorityConfig(cfg, model_name) ==
    LET hits == {k \in DOMAIN cfg.priority_models :
                    StrLower(cfg.priority_models[k].name) = StrLower(model_name)}
    IN  IF hits = {} THEN [found |-> FALSE, mention_channel |-> FALSE]
        ELSE [found |-> TRUE,
              mention_channel |->
                  cfg.priority_models[CHOOSE k \in hits : \A h \in hits : k <= h].mention_channel]

IsPriorityModel_ListOnly(cfg, model_name) == GetPriorityConfig(cfg, model_name).found

\* Config.is_priority_model
IsPriorityModel(cfg, model_name) ==
    \/ GetPriorityConfig(cfg, model_name).found
    \/ \E k \in DOMAIN cfg.models :
          /\ StrLower(cfg.models[k].name) = StrLower(model_name)
          /\ cfg.models[k].is_high_priority

\* Config.get_priority_model_names
GetPriorityModelNames(cfg) ==
    {StrLower(cfg.priority_models[k].name) : k \in DOMAIN cfg.priority_models}
        \cup {StrLower(cfg.models[k].name) :
                 k \in {h \in DOMAIN cfg.models : cfg.models[h].is_high_priority}}

\* WatcherService._mark_priority_events
MarkPriorityEvents(cfg, events) ==
    [i \in DOMAIN events |->
        IF StrLower(events[i].model_name) \in GetPriorityModelNames(cfg)
        THEN [events[i] EXCEPT !.is_priority = TRUE]
        ELSE events[i]]

\* A ModelConfig with the sources varied here; an empty string is a source
\* that is not configured.
ModelConfig(name, high, github, arxiv_query) ==
    [name |-> name, is_high_priority |-> high, github |-> github, huggingface |-> "",
     modelscope |-> "", arxiv_query |-> arxiv_query, news_keywords |-> ""]

\* _setup_watchers: for each model, in the order of the configuration, a
\* watcher per configured source; then the leaderboard watcher if enabled.
\* A watcher is known by its source_name and its model_name.
RECURSIVE ModelWatchers(_)
ModelWatchers(models) ==
    IF models = <<>> THEN <<>>
    ELSE LET model_config == Head(models)
             WatcherIf(source_name, configured) ==
                 IF configured = "" THEN <<>>
                 ELSE <<[source_name |-> source_name, model_name |-> model_config.name]>>
         IN  WatcherIf("github", model_config.github)
                 \o WatcherIf("huggingface", model_config.huggingface)
                 \o WatcherIf("modelscope", model_config.modelscope)
                 \o WatcherIf("arxiv", model_config.arxiv_query)
                 \o WatcherIf("news", model_config.news_keywords)
                 \o ModelWatchers(Tail(models))

SetupWatchers(cfg) ==
    ModelWatchers(cfg.models)
        \o (IF cfg.leaderboards_enabled
            THEN <<[source_name |-> "leaderboard", model_name |-> "AI Image Generation"]>>
            ELSE <<>>)

\* BaseWatcher.get_state_key
GetStateKey(watcher) == watcher.source_name \o ":" \o watcher.model_name

\* StateManager.get_state: [present |-> FALSE] is None.
GetState(st, key) == st[key]

SaveState_Dropped(st, key, state) == st

\* StateManager.save_state.  The state goes through json.dumps and, when
\* read back, json.loads: the states of the watchers hold strings, integers,
\* booleans, nulls, lists and string-keyed mappings only, which come back
\* as they were written.
SaveState(st, key, state) == [st EXCEPT ![key] = [present |-> TRUE, st |-> state]]

IsFirstRun_Never(last_state) == FALSE

\* is_first_run = last_state is None
IsFirstRun(last_state) == ~last_state.present

IsLeaderboardEvent_OrGitHub(e) == e.source \in {"leaderboard", "github"}

IsLeaderboardEvent(e) == e.source = "leaderboard"

RouteEvents_OtherKeepsLeaderboard(cfg, events) ==
    LET IsPriorityEvent(e) == IsPriorityModel(cfg, e.model_name)
        IsNormal(e) == ~IsPriorityModel(cfg, e.model_name)
        IsAnnounced(e) == e.release_stage = ANNOUNCED
        IsLaunched(e) == e.release_stage = LAUNCHED
        normal_events == SelectSeq(events, IsNormal)
        announcements == SelectSeq(normal_events, IsAnnounced)
        launches == SelectSeq(normal_events, IsLaunched)
        leaderboard_events == SelectSeq(normal_events, IsLeaderboardEvent)
        IsOther(e) == e \notin Range(announcements \o launches)
    IN  [priority |-> SelectSeq(events, IsPriorityEvent),
         announcements |-> announcements,
         launches |-> launches,
         leaderboard_events |-> leaderboard_events,
         other |-> SelectSeq(normal_events, IsOther)]

\* The split of run_once: priority events, and the normal events grouped
\* into announcements, launches, leaderboard events and the others.
RouteEvents(cfg, events) ==
    LET IsPriorityEvent(e) == IsPriorityModel(cfg, e.model_name)
        IsNormal(e) == ~IsPriorityModel(cfg, e.model_name)
        IsAnnounced(e) == e.release_stage = ANNOUNCED
        IsLaunched(e) == e.release_stage = LAUNCHED
        normal_events == SelectSeq(events, IsNormal)
        announcements == SelectSeq(normal_events, IsAnnounced)
        launches == SelectSeq(normal_events, IsLaunched)
        leaderboard_events == SelectSeq(normal_events, IsLeaderboardEvent)
        IsOther(e) == e \notin Range(announcements \o launches \o leaderboard_events)
    IN  [priority |-> SelectSeq(events, IsPriorityEvent),
         announcements |-> announcements,
         launches |-> launches,
         leaderboard_events |-> leaderboard_events,
         other |-> SelectSeq(normal_events, IsOther)]

NoBuckets ==
    [priority |-> <<>>, announcements |-> <<>>, launches |-> <<>>,
     leaderboard_events |-> <<>>, other |-> <<>>]

OneEach(kind, events) == [k \in DOMAIN events |-> [kind |-> kind, events |-> <<events[k]>>]]

Jobs_LeaderboardFirst(b) ==
    (IF b.leaderboard_events = <<>> THEN <<>>
     ELSE <<[kind |-> "leaderboard", events |-> b.leaderboard_events]>>)
        \o OneEach("priority", b.priority)
        \o OneEach("announcements", b.announcements)
        \o OneEach("launches", b.launches)
        \o OneEach("other", b.other)

Jobs_PerEvent(b) ==
    OneEach("priority", b.priority)
        \o OneEach("leaderboard", b.leaderboard_events)
        \o OneEach("announcements", b.announcements)
        \o OneEach("launches", b.launches)
        \o OneEach("other", b.other)

\* The sends of run_once in the order it makes them: a send per priority
\* event, one for all leaderboard events, then a send per announcement, per
\* launch and per other event.
Jobs(b) ==
    OneEach("priority", b.priority)
        \o (IF b.leaderboard_events = <<>> THEN <<>>
            ELSE <<[kind |-> "leaderboard", events |-> b.leaderboard_events]>>)
        \o OneEach("announcements", b.announcements)
        \o OneEach("launches", b.launches)
        \o OneEach("other", b.other)

\* by_leaderboard of _build_leaderboard_combined_message: the events under
\* the name of their board, boards in the order first met.  Every
\* leaderboard event carries its board in extra_data.
RECURSIVE GroupInto(_, _)
GroupInto(by_leaderboard, events) ==
    IF events = <<>> THEN by_leaderboard
    ELSE LET event == Head(events)
             hits == {g \in DOMAIN by_leaderboard :
                         by_leaderboard[g].leaderboard = event.leaderboard}
         IN  GroupInto(IF hits = {}
                       THEN Append(by_leaderboard,
                                   [leaderboard |-> event.leaderboard, events |-> <<event>>])
                       ELSE [by_leaderboard EXCEPT
                                ![CHOOSE g \in hits : TRUE].events = Append(@, event)],
                       Tail(events))

ByLeaderboard(events) == GroupInto(<<>>, events)

\* SlackNotifier.get_webhook_for_event
GetWebhookForEvent(cfg, event) ==
    IF event.source = "leaderboard" /\ "leaderboard" \in DOMAIN cfg.slack_channels
    THEN cfg.slack_channels["leaderboard"]
    ELSE IF event.event_type \in DOMAIN cfg.slack_channels
    THEN cfg.slack_channels[event.event_type]
    ELSE IF event.source \in DOMAIN cfg.slack_channels
    THEN cfg.slack_channels[event.source]
    ELSE cfg.slack_webhook_url

\* channel_webhooks.get(channel_name, self.webhook_url)
ChannelWebhook(cfg, channel_name) ==
    IF channel_name \in DOMAIN cfg.slack_channels THEN cfg.slack_channels[channel_name]
    ELSE cfg.slack_webhook_url

\* The endpoint of a send.  send_to_channel hands send_event the webhook of
\* the channel or the default one, and send_event takes it unless it is
\* empty: url = webhook_url or self.get_webhook_for_event(event).
JobUrl(cfg, job) ==
    CASE job.kind = "leaderboard" -> ChannelWebhook(cfg, "leaderboard")
      [] job.kind \in {"announcements", "launches"} ->
             IF ChannelWebhook(cfg, job.kind) # "" THEN ChannelWebhook(cfg, job.kind)
             ELSE GetWebhookForEvent(cfg, job.events[1])
      [] OTHER -> GetWebhookForEvent(cfg, job.events[1])

\* _build_message slices event.description, which raises TypeError when the
\* description is None; the combined leaderboard message does not read it.
BuildMessageRaises(job) ==
    job.kind # "leaderboard" /\ job.events[1].description_is_none

\* What a send can do: "raised" when the message cannot be built; otherwise
\* _send_webhook returns False for an endpoint that is not configured, and
\* True or False by the answer of the endpoint.
SendOutcomes(url, job) ==
    IF BuildMessageRaises(job) THEN {"raised"}
    ELSE IF url = "" THEN {"failed"}
    ELSE {"ok", "failed"}

\* text = "<!channel> " in _build_message
MentionsChannel(mention_channel_for, job) ==
    job.kind # "leaderboard" /\ job.events[1].event_type \in Range(mention_channel_for)

WithEventType_Unchanged(mention_channel_for, event_type) == mention_channel_for

\* if event.event_type not in mention_channel_for: append
WithEventType(mention_channel_for, event_type) ==
    IF event_type \in Range(mention_channel_for) THEN mention_channel_for
    ELSE Append(mention_channel_for, event_type)

RestoredMentionList_Kept(original_mention_list, current) == current

\* self.notifier.mention_channel_for = original_mention_list
RestoredMentionList(original_mention_list, current) == original_mention_list

\* The default of SlackNotifier for an empty or missing list.
DefaultMentionChannelFor == <<"new_release", "new_model", "release_launched">>

\* SlackNotifier.__init__: mention_channel_for or [...].  A non-empty list is
\* kept as the object it is, the list of the configuration.
NewNotifier(cfg) ==
    IF cfg.mention_channel_for = <<>>
    THEN [mention_channel_for |-> DefaultMentionChannelFor, shares_config_list |-> FALSE]
    ELSE [mention_channel_for |-> cfg.mention_channel_for, shares_config_list |-> TRUE]

NextWatcher_StopOnRaise(i, raised, n) == IF raised THEN n + 1 ELSE i + 1

\* The for loop of check_all goes on to the next watcher, also after the
\* except clause.
NextWatcher(i, raised, n) == i + 1

(***************************************************************************)
(* Upstream responses                                                      *)
(***************************************************************************)

\* requests.get raised requests.RequestException.
TransportError == [kind |-> "transport_error", status |-> 0, data |-> <<>>]

\* A request that was not made.
NotRequested == [kind |-> "not_requested", status |-> 0, data |-> <<>>]

\* requests.get returned: status_code and the 'data' list of the JSON body.
Http(status, data) == [kind |-> "http", status |-> status, data |-> data]

\* The lists of leaderboard entries over names (kept in that order), one
\* entry per name at most, each with a (rank, elo) pair of infos.
RECURSIVE ListsOver(_, _)
ListsOver(names, infos) ==
    IF names = <<>> THEN {<<>>}
    ELSE LET rest == ListsOver(Tail(names), infos)
         IN  rest \cup
             {<<[name |-> Head(names), rank |-> i[1], elo |-> i[2], creator |-> "Lab"]>> \o l :
                 i \in infos, l \in rest}

\* The largest rank the upstream lists.
MaxFetchedRank == 3

FetchedRanks == 1..MaxFetchedRank

(***************************************************************************)
(* State                                                                   *)
(***************************************************************************)

VARIABLES
    lb_state,       \* the leaderboard watcher's persisted state: [present, st]
    lb_responses,   \* the upstream responses of the last check_updates call
    lb_result,      \* what the last call returned: [called, events, log]
    ax_state,       \* the arXiv watcher's persisted state: [present, st]
    ax_response,    \* the upstream response of the last check_updates call
    ax_result,      \* what the last call did: [calls, raised, events], and the
                    \* papers the calls so far returned events for (notified)
    gh_state,       \* the GitHub watcher's persisted state: [present, st]
    gh_responses,   \* the upstream responses of the last check_updates call
    gh_result,      \* what the last call did: [calls, raised, events, state]
    gh_stage,       \* a call of _detect_release_stage: [text, is_prerelease, called, stage]
    store,          \* state_manager: state key -> [present, st]
    svc,            \* where run_once is: [pc, i, j, sent]
    all_events,     \* check_all's all_events, then run_once's events
    checks,         \* what each watcher check of check_all did so far, in order
    buckets,        \* the five lists run_once splits the events into
    outbox,         \* the delivery attempts of the cycle, in order
    notifier,       \* [mention_channel_for, shares_config_list]
    config,         \* the Config object
    watchers,       \* self.watchers of the service
    daemon          \* run_daemon: the scheduler, its job and the process

lbVars == <<lb_max_rank, lb_api_key, lb_fetches, lb_state, lb_responses, lb_result>>

axVars == <<ax_state, ax_response, ax_result>>

ghVars == <<gh_state, gh_responses, gh_result, gh_stage>>

svcVars == <<store, svc, all_events, checks, buckets, outbox, notifier, config, watchers,
             daemon>>

vars == <<lb_max_rank, lb_api_key, lb_fetches, lb_state, lb_responses, lb_result, ax_state,
          ax_response, ax_result,
          gh_state, gh_responses, gh_result, gh_stage, store, svc, all_events, checks,
          buckets, outbox, notifier, config, watchers, daemon>>

Absent == [present |-> FALSE, st |-> EmptyLBState]

\* The service was not started with --daemon: no scheduler, no job.
NoDaemon == [state |-> "none", due |-> FALSE, instances |-> 0, skipped |-> FALSE]

NoResult == [called |-> FALSE, events |-> <<>>, log |-> <<>>]

(***************************************************************************)
(* SpecLB: the leaderboard watcher over two boards, cycle after cycle.     *)
(* The caller saves the returned state and passes it to the next call, as  *)
(* check_all does.                                                         *)
(***************************************************************************)

LBBoards == <<"text-to-image", "image-editing">>

\* Every rank with an ELO of 1000, and rank 1 with a null ELO.
LBInfos == {<<r, 1000>> : r \in FetchedRanks} \cup {<<1, None>>}

LBResponses ==
    {[b \in Range(LBBoards) |-> IF b = "text-to-image" THEN r1 ELSE r2] :
        r1 \in {TransportError, Http(429, <<>>)}
                   \cup {Http(200, d) : d \in ListsOver(<<"A", "B">>, LBInfos)},
        r2 \in {TransportError}
                   \cup {Http(200, d) : d \in ListsOver(<<"C">>, {<<1, 1000>>, <<2, 1000>>})
                                               \ {<<>>}}}

(***************************************************************************)
(* The service that is modelled: a GitHub watcher for the model Flux and   *)
(* the leaderboard watcher on one board, with z-image a priority model.    *)
(***************************************************************************)

SvcBoards == <<"text-to-image", "image-editing">>

\* The configuration: the model Flux, watched on GitHub, and the model b of
\* priority 'high' or not, which has no source of its own; the priority model
\* z-image, with or without the channel mention.
SvcConfig(mention_channel, high) ==
    [models |-> <<ModelConfig("Flux", FALSE, "org/flux", ""),
                  ModelConfig("b", high, "", "")>>,
     leaderboards_enabled |-> TRUE,
     priority_models |-> <<[name |-> "z-image", mention_channel |-> mention_channel]>>,
     mention_channel_for |-> DefaultMentionChannelFor,
     slack_webhook_url |-> "hook-default",
     slack_channels |-> [announcements |-> "hook-announcements",
                         leaderboard |-> "hook-leaderboard"]]

\* self.watchers of the service: a GitHub watcher for Flux, then the
\* leaderboard watcher.
Watchers == SetupWatchers(SvcConfig(TRUE, FALSE))

\* None from get_state, for the watcher of that source.
AbsentOf(source_name) == IF source_name = "github" THEN GHAbsent ELSE Absent

EmptyStore ==
    [key \in {GetStateKey(Watchers[k]) : k \in DOMAIN Watchers} |->
        AbsentOf(Watchers[CHOOSE k \in DOMAIN Watchers :
                             GetStateKey(Watchers[k]) = key].source_name)]

\* run_once is about to call check_all: the loop is at the first watcher.
CycleStart == [pc |-> "check", i |-> 1, j |-> 0, sent |-> 0]

InitCycle ==
    /\ svc = CycleStart
    /\ all_events = <<>>
    /\ checks = <<>>
    /\ buckets = NoBuckets
    /\ outbox = <<>>

InitSvcVars ==
    /\ store = EmptyStore
    /\ InitCycle
    /\ config = SvcConfig(TRUE, FALSE)
    /\ notifier = NewNotifier(config)
    /\ watchers = Watchers
    /\ daemon = NoDaemon

InitLBVars ==
    /\ lb_max_rank = max_rank
    /\ lb_api_key = TRUE
    /\ lb_fetches = NoFetches
    /\ lb_state = Absent
    /\ lb_responses = [b \in Range(LBBoards) |-> TransportError]
    /\ lb_result = NoResult

InitAxVars ==
    /\ ax_state = AxAbsent
    /\ ax_response = TransportError
    /\ ax_result = [calls |-> 0, raised |-> FALSE, events |-> <<>>, notified |-> {}]

\* _detect_release_stage has not been called.
NoStageCall == [text |-> <<>>, is_prerelease |-> FALSE, called |-> FALSE, stage |-> UNKNOWN]

InitGHVars ==
    /\ gh_state = GHAbsent
    /\ gh_responses = [commits |-> NotRequested, releases |-> NotRequested,
                       repo |-> NotRequested, has_releases |-> NotRequested]
    /\ gh_result = [calls |-> 0, raised |-> FALSE, events |-> <<>>,
                    state |-> GHEmptyState]
    /\ gh_stage = NoStageCall

InitLB == InitLBVars /\ InitAxVars /\ InitGHVars /\ InitSvcVars

LBCheck ==
    \E responses \in LBResponses :
        \E r \in LBCheckUpdates(LBBoards, TRUE, lb_state, responses) :
            /\ lb_responses' = responses
            /\ lb_state' = [present |-> TRUE, st |-> r.state]
            /\ lb_result' = [called |-> TRUE, events |-> r.events, log |-> r.log]
            /\ UNCHANGED <<lb_max_rank, lb_api_key, lb_fetches, axVars, ghVars, svcVars>>

SpecLB == InitLB /\ [][LBCheck]_vars

(***************************************************************************)
(* Claims about the leaderboard watcher across cycles (SpecLB)             *)
(***************************************************************************)

\* The state a call works on: {} when the prior state is None.
StateOf(last_check_state) ==
    IF last_check_state.present THEN last_check_state.st ELSE EmptyLBState

FailedOutcomes == {"transport_error", "http_error", "processing_error"}

\* C4: after any sequence of cycles, every entry of every persisted board
\* snapshot, in its rankings map and in its models list, has rank <= max_rank.
C4_LeaderboardBound ==
    \A b \in ENDPOINTS :
        LET snap == lb_state.st[b]
        IN  /\ \A e \in snap.rankings : e.rank <= max_rank
            /\ \A i \in 1..Len(snap.models) :
                   /\ HasRanking(snap.rankings, snap.models[i])
                   /\ RankingOf(snap.rankings, snap.models[i]).rank <= max_rank

\* A cycle in which one board failed and another stored a non-empty snapshot
\* from a response that listed a model beyond max_rank.
C4_Witness ==
    /\ lb_result.called
    /\ \E i, j \in 1..Len(lb_result.log) :
           /\ lb_result.log[i].outcome \in FailedOutcomes
           /\ lb_result.log[j].outcome = "updated"
           /\ LET b == lb_result.log[j].board
              IN  /\ \E k \in 1..Len(lb_responses[b].data) :
                         lb_responses[b].data[k].rank > max_rank
                  /\ lb_state.st[b].models # <<>>

\* C8: a board whose check fails in a cycle (transport error, non-200 status,
\* error while processing the response) contributes zero events, its stored
\* snapshot is left as it was, and the other boards of the cycle are still
\* checked.
C8_BoardFailureHandling ==
    [][/\ Len(lb_result'.log) = Len(LBBoards)
       /\ \A i \in 1..Len(lb_result'.log) :
              lb_result'.log[i].outcome \in FailedOutcomes =>
                  /\ lb_result'.log[i].events = <<>>
                  /\ lb_state'.st[lb_result'.log[i].board]
                        = StateOf(lb_state)[lb_result'.log[i].board]]_vars

(***************************************************************************)
(* SpecDiff: one check of one board, from every snapshot a check can have  *)
(* stored and for every response.                                          *)
(***************************************************************************)

DiffBoards == <<"text-to-image">>

\* Ranks with an ELO of 1000 or 1050 when tracked, 1000 beyond max_rank, and
\* rank 1 with a null ELO.
DiffInfos ==
    {<<r, e>> \in FetchedRanks \X {1000, 1050} : r <= max_rank \/ e = 1000}
        \cup {<<1, None>>}

DiffResponses ==
    {[b \in Range(DiffBoards) |-> r] :
        r \in {TransportError, Http(500, <<>>)}
                  \cup {Http(200, d) : d \in ListsOver(<<"A", "B", "C">>, DiffInfos)}}

\* The states the watcher can hold before a check: none, or the state an
\* earlier check returned.
DiffPriorStates ==
    {Absent} \cup
    UNION {{[present |-> TRUE, st |-> r.state] :
               r \in LBCheckUpdates(DiffBoards, TRUE, Absent, responses)} :
           responses \in DiffResponses}

InitDiff ==
    /\ lb_max_rank = max_rank
    /\ lb_api_key = TRUE
    /\ lb_fetches = NoFetches
    /\ lb_state \in DiffPriorStates
    /\ lb_responses = [b \in Range(DiffBoards) |-> TransportError]
    /\ lb_result = NoResult
    /\ InitAxVars
    /\ InitGHVars
    /\ InitSvcVars

DiffCheck ==
    /\ ~lb_result.called
    /\ \E responses \in DiffResponses :
           \E r \in LBCheckUpdates(DiffBoards, TRUE, lb_state, responses) :
               /\ lb_responses' = responses
               /\ lb_state' = [present |-> TRUE, st |-> r.state]
               /\ lb_result' = [called |-> TRUE, events |-> r.events, log |-> r.log]
               /\ UNCHANGED <<lb_max_rank, lb_api_key, lb_fetches, axVars, ghVars, svcVars>>

SpecDiff == InitDiff /\ [][DiffCheck]_vars

\* The events of a type about a model among events.
EventsOf(events, event_type, model_name) ==
    {i \in 1..Len(events) :
        events[i].event_type = event_type /\ events[i].model_name = model_name}

EventsOfType(events, event_type) ==
    {i \in 1..Len(events) : events[i].event_type = event_type}

DiffBoard == DiffBoards[1]

AxModel == "Z-Image"

\* The papers the upstream can list.
AxPapers == {"p1", "p2", "p3"}

AxBodies ==
    {[well_formed |-> FALSE, empty_title |-> FALSE, papers |-> <<>>],
     [well_formed |-> TRUE, empty_title |-> TRUE, papers |-> <<>>]}
        \cup {[well_formed |-> TRUE, empty_title |-> FALSE, papers |-> ps] :
                 ps \in UNION {Orderings(S) : S \in SUBSET AxPapers}}

AxResponses ==
    {TransportError, Http(503, [well_formed |-> FALSE, empty_title |-> FALSE, papers |-> <<>>])}
        \cup {Http(200, body) : body \in AxBodies}

\* The stored states at start: none, or a list of IDs of papers that have
\* left the window, of a length up to the cap.
AxStartStates ==
    {AxAbsent} \cup
    {[present |-> TRUE, st |-> [has_seen |-> TRUE, old |-> n, ids |-> {}]] :
        n \in (SeenCap - Cardinality(AxPapers))..SeenCap}

InitArxiv ==
    /\ InitLBVars
    /\ InitGHVars
    /\ InitSvcVars
    /\ ax_state \in AxStartStates
    /\ ax_response = TransportError
    /\ ax_result = [calls |-> 0, raised |-> FALSE, events |-> <<>>, notified |-> {}]

\* One cycle: the caller passes the stored state and, unless the call
\* raised, stores the state returned.  calls counts modulo 2.
AxCheck ==
    \E response \in AxResponses :
        \E r \in ArxivCheckUpdates(AxModel, ax_state, response) :
            /\ ax_response' = response
            /\ ax_state' = IF r.raised THEN ax_state
                            ELSE [present |-> TRUE, st |-> r.state]
            /\ ax_result' = [calls |-> 1 + (ax_result.calls % 2), raised |-> r.raised,
                              events |-> r.events,
                              notified |-> ax_result.notified
                                  \cup {r.events[i].item_id : i \in DOMAIN r.events}]
            /\ UNCHANGED <<lbVars, ghVars, svcVars>>

SpecArxiv == InitArxiv /\ [][AxCheck]_vars

\* The fetch and the parse of a call succeeded.
AxFetchOk(response) ==
    /\ response.kind = "http"
    /\ response.status = 200
    /\ response.data.well_formed
    /\ ~response.data.empty_title

\* C2: if check_updates(S) returned (E1, S1) and check_updates(S1) is called
\* next on identical upstream data, every fetch succeeding, the second call
\* returns no events.
C2_Idempotence ==
    [][(/\ ax_result.calls > 0
        /\ ~ax_result.raised
        /\ AxFetchOk(ax_response)
        /\ ax_response' = ax_response)
       => ax_result'.events = <<>>]_vars

(***************************************************************************)
(* SpecGH: one call of the GitHub watcher, from any stored state.          *)
(***************************************************************************)

GHModel == "Flux"

TextFix == <<"F", "i", "x">>

TextWIP == <<"W", "I", "P">>

TextV1 == <<"v", "1", ".", "0">>

\* The commits upstream, oldest first, and the message of each.
GHCommits ==
    <<[sha |-> 1, message |-> TextFix],
      [sha |-> 2, message |-> TextWIP]>>

GHCommitLists == {<<>>, <<GHCommits[1]>>, <<GHCommits[2], GHCommits[1]>>}

GHRelease(id, name, prerelease, assets, dated) ==
    [id |-> id, tag_name |-> id, name |-> name, body |-> <<>>,
     prerelease |-> prerelease, assets |-> assets, dated |-> dated]

GHFirstRelease == GHRelease(1, TextFix, FALSE, FALSE, TRUE)

\* The second release: launched by its name, a prerelease with assets, one
\* of unknown stage, and one with neither date.
GHSecondReleases ==
    {GHRelease(2, TextV1, FALSE, FALSE, TRUE),
     GHRelease(2, TextFix, TRUE, TRUE, TRUE),
     GHRelease(2, TextFix, FALSE, FALSE, TRUE),
     GHRelease(2, TextFix, FALSE, FALSE, FALSE)}

GHReleaseLists ==
    {<<>>, <<GHFirstRelease>>} \cup {<<r, GHFirstRelease>> : r \in GHSecondReleases}

GHRepoData ==
    {[created_at |-> 1, description |-> TextWIP, description_is_none |-> FALSE],
     [created_at |-> 1, description |-> <<>>, description_is_none |-> TRUE],
     [created_at |-> None, description |-> TextFix, description_is_none |-> FALSE]}

\* The answers to the requests of one call made with the stored state: the
\* repository is requested only while it is not known, and the one-release
\* listing only when the repository request was answered with 200.
GHResponses(state) ==
    {rs \in [commits : {TransportError} \cup {Http(200, l) : l \in GHCommitLists},
             releases : {TransportError} \cup {Http(200, l) : l \in GHReleaseLists},
             repo : IF state.st.repo_known THEN {NotRequested}
                    ELSE {TransportError} \cup {Http(200, d) : d \in GHRepoData},
             has_releases : {NotRequested, TransportError, Http(200, <<>>),
                             Http(200, <<GHFirstRelease>>)}] :
        (rs.repo.status = 200) = (rs.has_releases # NotRequested)}

\* The stored states a call can be made with: none, or one written by
\* earlier calls.  The three parts of a state are written independently of
\* each other, each from the answer to its own request.
GHPriorStates ==
    {GHAbsent} \cup
    {[present |-> TRUE,
      st |-> [last_commit_sha |-> c, last_release_id |-> r,
              repo_known |-> k, repo_created_at |-> IF k THEN 1 ELSE None]] :
        c \in {None, 1, 2}, r \in {None, 1, 2}, k \in BOOLEAN}

InitGH ==
    /\ InitLBVars
    /\ InitAxVars
    /\ InitSvcVars
    /\ gh_state \in GHPriorStates
    /\ gh_responses = [commits |-> NotRequested, releases |-> NotRequested,
                       repo |-> NotRequested, has_releases |-> NotRequested]
    /\ gh_result = [calls |-> 0, raised |-> FALSE, events |-> <<>>,
                    state |-> GHEmptyState]
    /\ gh_stage = NoStageCall

\* One call: the caller passes the stored state and, unless the call
\* raised, stores the state returned.
GHCheck ==
    /\ gh_result.calls = 0
    /\ \E responses \in GHResponses(gh_state) :
           LET r == GitHubCheckUpdates(GHModel, gh_state, responses)
           IN  /\ gh_responses' = responses
               /\ gh_state' = IF r.raised THEN gh_state
                               ELSE [present |-> TRUE, st |-> r.state]
               /\ gh_result' = [calls |-> 1, raised |-> r.raised,
                                 events |-> r.events, state |-> r.state]
               /\ UNCHANGED <<gh_stage, lbVars, axVars, svcVars>>

SpecGH == InitGH /\ [][GHCheck]_vars

\* A request of the call got no answer: the commit and release listings are
\* always requested, the repository only while it is not known.
GHFetchFailed(state, responses) ==
    \/ responses.commits.kind = "transport_error"
    \/ responses.releases.kind = "transport_error"
    \/ ~state.st.repo_known /\ responses.repo.kind = "transport_error"

\* C6: when a fetch or a parse of the upstream response fails during
\* check_updates, the call does not raise, returns no events and returns a
\* state equal to the prior state (the empty state for an absent one).  Shown
\* here for the GitHub watcher; a parse that fails is one that raised.
C6_FailSoft ==
    [][(GHFetchFailed(gh_state, gh_responses') \/ gh_result'.raised)
       => /\ ~gh_result'.raised
          /\ gh_result'.events = <<>>
          /\ gh_result'.state = gh_state.st]_vars

(***************************************************************************)
(* Spec: the service, cycle after cycle (run_once after run_once).         *)
(***************************************************************************)

SvcCommits ==
    <<[sha |-> 1, message |-> TextFix],
      [sha |-> 2, message |-> TextWIP],
      [sha |-> 3, message |-> TextV1]>>

\* The answers to the GitHub watcher: a commit listing of one, two or three
\* commits, newest first, or none; no release listing; and, while the
\* repository is not known, no answer for it or one without created_at.
SvcGHResponses(state) ==
    {[commits |-> c, releases |-> TransportError, repo |-> x[1], has_releases |-> x[2]] :
        c \in {TransportError, Http(200, <<SvcCommits[1]>>),
               Http(200, <<SvcCommits[2], SvcCommits[1]>>),
               Http(200, <<SvcCommits[3], SvcCommits[2], SvcCommits[1]>>)},
        x \in IF state.st.repo_known THEN {<<NotRequested, NotRequested>>}
              ELSE {<<TransportError, NotRequested>>,
                    <<Http(200, [created_at |-> None, description |-> TextFix,
                                 description_is_none |-> FALSE]),
                      Http(200, <<>>)>>}}

\* The answers to the leaderboard watcher.  For the first board: no answer,
\* or a listing of Z-Image at rank 1 or 2 and B at rank 1, either or both.
\* For the second board: no answer, or a listing of B at rank 1.
SvcLBResponses ==
    {[b \in Range(SvcBoards) |-> IF b = SvcBoards[1] THEN r ELSE q] :
        r \in {TransportError} \cup
              {Http(200, l) :
                  l \in {d \in ListsOver(<<"Z-Image", "B">>, {<<1, 1000>>, <<2, 1000>>}) :
                            \A k \in DOMAIN d : d[k].name = "B" => d[k].rank = 1}},
        q \in {TransportError} \cup {Http(200, l) : l \in ListsOver(<<"B">>, {<<1, 1000>>}) \ {<<>>}}}

\* The service starts with an empty store, with or without an API key for
\* the leaderboards.
Init ==
    /\ lb_max_rank = max_rank
    /\ lb_api_key \in BOOLEAN
    /\ lb_fetches = NoFetches
    /\ lb_state = Absent
    /\ lb_responses = [b \in Range(LBBoards) |-> TransportError]
    /\ lb_result = NoResult
    /\ InitAxVars
    /\ InitGHVars
    /\ store = EmptyStore
    /\ InitCycle
    /\ config \in {SvcConfig(m, h) : m \in BOOLEAN, h \in BOOLEAN}
    /\ notifier = NewNotifier(config)
    /\ watchers = SetupWatchers(config)
    /\ daemon = NoDaemon

\* The body of the loop of check_all after check_updates returned r =
\* [raised, events, state] for the watcher at svc.i, whose stored state was
\* last_state; on leaving the loop, run_once routes the events if there are
\* any.  A leaderboard check also tells the boards it fetched.  new_state is
\* the mapping the watcher worked on; prior_after is what last_state holds
\* once the call is over.
Checked(key, last_state, new_state, r) ==
    LET is_first_run == IsFirstRun(last_state)
        events == IF r.raised \/ is_first_run THEN all_events
                  ELSE all_events \o r.events
        n == NextWatcher(svc.i, r.raised, Len(watchers))
    IN  /\ store' = IF r.raised THEN store ELSE SaveState(store, key, r.state)
        /\ all_events' = events
        /\ checks' = Append(checks, [i |-> svc.i, last_state |-> last_state,
                                     raised |-> r.raised, events |-> r.events,
                                     new_state |-> r.state,
                                     prior_after |-> PriorAfter(last_state, new_state,
                                                                r.state),
                                     fetched |-> IF "fetched" \in DOMAIN r THEN r.fetched
                                                 ELSE <<>>])
        /\ svc' = IF n <= Len(watchers) THEN [svc EXCEPT !.i = n]
                  ELSE [svc EXCEPT !.i = n,
                                   !.pc = IF events = <<>> THEN "done" ELSE "route"]
        /\ UNCHANGED <<buckets, outbox, notifier, config, watchers, daemon, lbVars, axVars, ghVars>>

CheckGitHub ==
    /\ svc.pc = "check"
    /\ watchers[svc.i].source_name = "github"
    /\ LET key == GetStateKey(watchers[svc.i])
           last_state == GetState(store, key)
       IN  \E responses \in SvcGHResponses(last_state) :
               Checked(key, last_state, CopyState(last_state, GHEmptyState),
                       GitHubCheckUpdates(watchers[svc.i].model_name, last_state, responses))

CheckLeaderboard ==
    /\ svc.pc = "check"
    /\ watchers[svc.i].source_name = "leaderboard"
    /\ LET key == GetStateKey(watchers[svc.i])
           last_state == GetState(store, key)
       IN  \E responses \in SvcLBResponses :
               \E r \in LBCheckUpdates(SvcBoards, lb_api_key, last_state, responses) :
                   Checked(key, last_state, CopyState(last_state, EmptyLBState),
                           [raised |-> FALSE, events |-> r.events, state |-> r.state,
                            fetched |-> [k \in DOMAIN r.log |-> r.log[k].board]])

\* run_once with events: mark the priority events and split the list.
Route ==
    /\ svc.pc = "route"
    /\ all_events' = MarkPriorityEvents(config, all_events)
    /\ buckets' = RouteEvents(config, MarkPriorityEvents(config, all_events))
    /\ svc' = [svc EXCEPT !.pc = "dispatch", !.j = 1]
    /\ UNCHANGED <<store, checks, outbox, notifier, config, watchers, daemon, lbVars, axVars, ghVars>>

AfterSend_StopOnFailure(outcome) ==
    IF outcome # "ok" THEN [svc EXCEPT !.pc = "aborted"]
    ELSE [svc EXCEPT !.j = svc.j + 1,
                     !.sent = svc.sent + 1,
                     !.pc = IF svc.j = Len(Jobs(buckets)) THEN "done" ELSE "dispatch"]

\* After a send: a send that raised ends run_once; the others are tallied
\* and the next send, if any, follows.
AfterSend(outcome) ==
    IF outcome = "raised" THEN [svc EXCEPT !.pc = "aborted"]
    ELSE [svc EXCEPT !.j = svc.j + 1,
                     !.sent = svc.sent + (IF outcome = "ok" THEN 1 ELSE 0),
                     !.pc = IF svc.j = Len(Jobs(buckets)) THEN "done" ELSE "dispatch"]

\* A delivery attempt: the send, its endpoint, whether the message mentions
\* the channel, the sections of a combined leaderboard message, and what
\* the send did.
Attempt(job, url, mention, outcome) ==
    [kind |-> job.kind, events |-> job.events, url |-> url, mention |-> mention,
     sections |-> IF job.kind = "leaderboard" THEN ByLeaderboard(job.events) ELSE <<>>,
     outcome |-> outcome]

\* The send of one priority event.  With a priority model that mentions the
\* channel, the event type is appended to the notifier's list for the send
\* and the list is replaced by the copy taken before; the append is made in
\* place, so it also shows in the configuration's list while that is the
\* same object.
DeliverPriority ==
    /\ svc.pc = "dispatch"
    /\ Jobs(buckets)[svc.j].kind = "priority"
    /\ LET job == Jobs(buckets)[svc.j]
           event == job.events[1]
           priority_config == GetPriorityConfig(config, event.model_name)
           override == priority_config.found /\ priority_config.mention_channel
           original_mention_list == notifier.mention_channel_for
           during == IF override
                     THEN WithEventType(original_mention_list, event.event_type)
                     ELSE original_mention_list
           url == GetWebhookForEvent(config, event)
       IN  \E outcome \in SendOutcomes(url, job) :
               /\ outbox' = Append(outbox, Attempt(job, url, MentionsChannel(during, job), outcome))
               /\ notifier' =
                      IF ~override THEN notifier
                      ELSE IF outcome = "raised"
                      THEN [notifier EXCEPT !.mention_channel_for = during]
                      ELSE [mention_channel_for |->
                                RestoredMentionList(original_mention_list, during),
                            shares_config_list |-> FALSE]
               /\ config' = IF override /\ notifier.shares_config_list
                            THEN [config EXCEPT !.mention_channel_for = during]
                            ELSE config
               /\ svc' = AfterSend(outcome)
    /\ UNCHANGED <<store, all_events, checks, buckets, watchers, daemon, lbVars, axVars, ghVars>>

\* send_leaderboard_combined: one message for all leaderboard events.
DeliverCombined ==
    /\ svc.pc = "dispatch"
    /\ Jobs(buckets)[svc.j].kind = "leaderboard"
    /\ LET job == Jobs(buckets)[svc.j]
           url == JobUrl(config, job)
       IN  \E outcome \in SendOutcomes(url, job) :
               /\ outbox' = Append(outbox, Attempt(job, url, FALSE, outcome))
               /\ svc' = AfterSend(outcome)
    /\ UNCHANGED <<store, all_events, checks, buckets, notifier, config,
                   watchers, daemon, lbVars, axVars, ghVars>>

\* One send of send_to_channel (announcements, launches) or send_events
\* (other events).
DeliverEvent ==
    /\ svc.pc = "dispatch"
    /\ Jobs(buckets)[svc.j].kind \in {"announcements", "launches", "other"}
    /\ LET job == Jobs(buckets)[svc.j]
           url == JobUrl(config, job)
       IN  \E outcome \in SendOutcomes(url, job) :
               /\ outbox' = Append(outbox, Attempt(job, url,
                                   MentionsChannel(notifier.mention_channel_for, job), outcome))
               /\ svc' = AfterSend(outcome)
    /\ UNCHANGED <<store, all_events, checks, buckets, notifier, config,
                   watchers, daemon, lbVars, axVars, ghVars>>

\* run_once returned (or raised); the next run_once begins.
StartCycle ==
    /\ svc.pc \in {"done", "aborted"}
    /\ svc' = CycleStart
    /\ all_events' = <<>>
    /\ checks' = <<>>
    /\ buckets' = NoBuckets
    /\ outbox' = <<>>
    /\ UNCHANGED <<store, notifier, config, watchers, daemon, lbVars, axVars, ghVars>>

Next ==
    \/ CheckGitHub
    \/ CheckLeaderboard
    \/ Route
    \/ DeliverPriority
    \/ DeliverCombined
    \/ DeliverEvent
    \/ StartCycle

Spec == Init /\ [][Next]_vars

\* The watcher of a check, and the key of its state.
WatcherOf(check) == watchers[check.i]

KeyOf(check) == GetStateKey(watchers[check.i])

\* An event as it was before _mark_priority_events.
Unmarked(e) == [e EXCEPT !.is_priority = FALSE]

\* C1: for a watcher whose state key is absent from the store when the cycle
\* reads it, none of the events its check_updates returned is in the cycle's
\* aggregated list, and the state it returned is stored under that key.
C1_FirstRunSuppression ==
    \A k \in DOMAIN checks :
        (~checks[k].last_state.present /\ ~checks[k].raised)
        => /\ \A i \in DOMAIN all_events :
                  Unmarked(all_events[i]) \notin Range(checks[k].events)
           /\ store[KeyOf(checks[k])] = [present |-> TRUE, st |-> checks[k].new_state]

C1_Witness ==
    \E k \in DOMAIN checks :
        /\ ~checks[k].last_state.present
        /\ ~checks[k].raised
        /\ checks[k].events # <<>>
        /\ svc.pc = "done"

BucketNames == {"priority", "announcements", "launches", "leaderboard_events", "other"}

\* C3: the five buckets partition the event list of run_once: every event is
\* in exactly one bucket and the bucket sizes sum to the size of the list.
C3_RoutingPartition ==
    buckets # NoBuckets
    => /\ Len(buckets.priority) + Len(buckets.announcements) + Len(buckets.launches)
              + Len(buckets.leaderboard_events) + Len(buckets.other) = Len(all_events)
       /\ \A i \in DOMAIN all_events :
              Cardinality({b \in BucketNames : all_events[i] \in Range(buckets[b])}) = 1

C3_Witness ==
    /\ buckets.priority # <<>>
    /\ buckets.announcements # <<>>
    /\ buckets.launches # <<>>
    /\ buckets.leaderboard_events # <<>>

\* C5: a send of a priority event whose priority model mentions the channel,
\* whether it succeeded or returned failure, leaves the notifier's
\* mention_channel_for list with the length and contents it had before.
C5_MentionListRestored ==
    [][(/\ svc.pc = "dispatch"
        /\ Jobs(buckets)[svc.j].kind = "priority"
        /\ GetPriorityConfig(config, Jobs(buckets)[svc.j].events[1].model_name).mention_channel
        /\ Len(outbox') = Len(outbox) + 1
        /\ outbox'[Len(outbox')].outcome \in {"ok", "failed"})
       => notifier'.mention_channel_for = notifier.mention_channel_for]_vars

C5_Witness ==
    /\ outbox # <<>>
    /\ outbox[Len(outbox)].kind = "priority"
    /\ outbox[Len(outbox)].mention
    /\ outbox[Len(outbox)].outcome = "failed"
    /\ outbox[Len(outbox)].events[1].event_type \notin Range(notifier.mention_channel_for)

\* C7: a watcher whose check_updates raises does not stop the cycle: the
\* watchers are checked one by one in order, all of them before check_all
\* returns; the one that raised has none of its events in the aggregated
\* list and the state stored under its key is the one the cycle read.
C7_FailureIsolation ==
    /\ \A k \in DOMAIN checks : checks[k].i = k
    /\ svc.pc # "check" => Len(checks) = Len(Watchers)
    /\ \A k \in DOMAIN checks :
           checks[k].raised
           => /\ store[KeyOf(checks[k])] = checks[k].last_state
              /\ \A i \in DOMAIN all_events :
                     all_events[i].source # WatcherOf(checks[k]).source_name

C7_Witness ==
    /\ Len(checks) = Len(Watchers)
    /\ checks[1].raised
    /\ checks[1].last_state.present
    /\ all_events # <<>>

(***************************************************************************)
(* Claims about one check of one board (SpecDiff), continued               *)
(***************************************************************************)

\* C11: a check of a board that has no previous snapshot emits no
\* leaderboard_new_entry event; a check of a board that has one emits exactly
\* one new-entry event for each model of the current filtered set that is
\* absent from the previous snapshot's models, and none for any other model.
C11_NewEntryOnlyWithSnapshot ==
    [][lb_result'.log[1].outcome = "updated" =>
        LET prev == StateOf(lb_state)[DiffBoard]
            cur == lb_state'.st[DiffBoard]
            events == lb_result'.events
        IN  IF ~prev.present
            THEN EventsOfType(events, "leaderboard_new_entry") = {}
            ELSE /\ \A m \in Range(cur.models) :
                        Cardinality(EventsOf(events, "leaderboard_new_entry", m))
                            = IF m \in Range(prev.models) THEN 0 ELSE 1
                 /\ \A i \in EventsOfType(events, "leaderboard_new_entry") :
                        events[i].model_name \in Range(cur.models)]_vars

(***************************************************************************)
(* One check of one board by a watcher whose max_rank lies beyond the      *)
(* top-3 threshold (SpecTop3)                                              *)
(***************************************************************************)

\* self.max_rank of this watcher: one more than the top-3 threshold.
WideMaxRank == 4

\* Four models, each absent or listed at rank 1, 2 or WideMaxRank: ties at a
\* rank, and a gap between rank 2 and the last tracked rank.
Top3Responses ==
    {[b \in Range(DiffBoards) |-> Http(200, d)] :
        d \in ListsOver(<<"A", "B", "C", "D">>, {<<r, 1000>> : r \in {1, 2, WideMaxRank}})}

InitTop3 ==
    /\ lb_max_rank = WideMaxRank
    /\ lb_api_key = TRUE
    /\ lb_fetches = NoFetches
    /\ lb_state \in
           {Absent} \cup
           UNION {{[present |-> TRUE, st |-> r.state] :
                      r \in LBCheckUpdates(DiffBoards, TRUE, Absent, responses)} :
                  responses \in Top3Responses}
    /\ lb_responses = [b \in Range(DiffBoards) |-> TransportError]
    /\ lb_result = NoResult
    /\ InitAxVars
    /\ InitGHVars
    /\ InitSvcVars

Top3Check ==
    /\ ~lb_result.called
    /\ \E responses \in Top3Responses :
           \E r \in LBCheckUpdates(DiffBoards, TRUE, lb_state, responses) :
               /\ lb_responses' = responses
               /\ lb_state' = [present |-> TRUE, st |-> r.state]
               /\ lb_result' = [called |-> TRUE, events |-> r.events, log |-> r.log]
               /\ UNCHANGED <<lb_max_rank, lb_api_key, lb_fetches, axVars, ghVars, svcVars>>

SpecTop3 == InitTop3 /\ [][Top3Check]_vars

\* C12: after a check that stored a snapshot, the snapshot's top3 is its
\* models sorted ascending by rank and cut to the first three, so its length
\* is the smaller of 3 and the number of tracked models, whatever ranks were
\* fetched (gaps and ties included).
C12_SnapshotTop3 ==
    (lb_result.called /\ lb_result.log[1].outcome = "updated") =>
        LET snap == lb_state.st[DiffBoard]
        IN  /\ snap.top3 = Prefix(SortByRank(snap.models, snap.rankings), 3)
            /\ Len(snap.top3) = IF Len(snap.models) < 3 THEN Len(snap.models) ELSE 3

\* C13: a check that stored a snapshot emits exactly one
\* leaderboard_top3_change event, carrying the previous and the current top-3,
\* when the previous snapshot's top3 is non-empty and differs as an ordered
\* sequence from the current snapshot's top3; otherwise it emits none.
C13_Top3ChangeDetection ==
    [][lb_result'.log[1].outcome = "updated" =>
        LET prev == StateOf(lb_state)[DiffBoard]
            cur == lb_state'.st[DiffBoard]
            events == lb_result'.events
            changes == EventsOfType(events, "leaderboard_top3_change")
        IN  IF prev.top3 # <<>> /\ prev.top3 # cur.top3
            THEN /\ Cardinality(changes) = 1
                 /\ \A i \in changes :
                        /\ events[i].previous_top3 = prev.top3
                        /\ events[i].current_top3 = cur.top3
            ELSE changes = {}]_vars

(***************************************************************************)
(* Claims about the dispatch of a cycle (Spec)                             *)
(***************************************************************************)

\* C14: a delivery attempt that returned failure prevents no later dispatch
\* of the cycle: whenever the attempt for the k-th send of the cycle failed
\* and the cycle has a later send, that send has been attempted for its own
\* events or is the one the cycle makes next.
C14_DispatchIndependence ==
    \A k \in DOMAIN outbox :
        (outbox[k].outcome = "failed" /\ k < Len(Jobs(buckets))) =>
            \/ /\ k + 1 \in DOMAIN outbox
               /\ outbox[k + 1].events = Jobs(buckets)[k + 1].events
            \/ /\ k = Len(outbox)
               /\ svc.pc = "dispatch"
               /\ svc.j = k + 1

\* A cycle whose first attempt failed and whose second was made.
C14_Witness ==
    /\ Len(outbox) >= 2
    /\ outbox[1].outcome = "failed"
    /\ svc.pc = "done"

\* The two numbers of run_once's closing line, "Successfully sent
\* {sent}/{len(events)} notifications".
ReportedSent == svc.sent

ReportedTotal == Len(all_events)

\* C15: at the end of a cycle that had events, the reported success count is
\* the number of delivery attempts that returned success and the reported
\* total is the number of delivery attempts the cycle made, so the two are
\* equal when every delivery succeeded.
C15_DeliveryTally ==
    (svc.pc = "done" /\ all_events # <<>>) =>
        /\ ReportedSent = Cardinality({k \in DOMAIN outbox : outbox[k].outcome = "ok"})
        /\ ReportedTotal = Len(outbox)
        /\ (\A k \in DOMAIN outbox : outbox[k].outcome = "ok") => ReportedSent = ReportedTotal

\* The priority model of an event mentions the channel.
OverridesMention(cfg, event) ==
    LET priority_config == GetPriorityConfig(cfg, event.model_name)
    IN  priority_config.found /\ priority_config.mention_channel

\* C16: the message of a priority send whose priority model has
\* mention_channel = true carries the channel mention whatever the event
\* type, and every other send of the cycle carries it only when its event
\* type is in the configured mention list (the combined leaderboard message
\* never does).
C16_PriorityMentionOverride ==
    \A k \in DOMAIN outbox :
        LET a == outbox[k]
        IN  IF a.kind = "priority" /\ OverridesMention(config, a.events[1])
            THEN a.mention
            ELSE a.mention = (/\ a.kind # "leaderboard"
                              /\ a.events[1].event_type \in Range(DefaultMentionChannelFor))

\* A cycle with a priority send that mentions the channel for an event type
\* outside the configured list, followed by a priority send of the same
\* event type, for a model without the override, that does not.
C16_Witness ==
    \E k \in DOMAIN outbox : \E l \in DOMAIN outbox :
        /\ k < l
        /\ outbox[k].kind = "priority"
        /\ OverridesMention(config, outbox[k].events[1])
        /\ outbox[k].events[1].event_type \notin Range(DefaultMentionChannelFor)
        /\ outbox[k].mention
        /\ outbox[l].kind = "priority"
        /\ outbox[l].events[1].event_type = outbox[k].events[1].event_type
        /\ ~outbox[l].mention

\* C17: once run_once has split the events, an event is in the priority
\* bucket iff its model name, compared without case, is that of a configured
\* priority model or of a model of priority 'high'; exactly those events
\* carry is_priority; and none of them is in the announcements, launches,
\* leaderboard or other bucket.
C17_PriorityTagging ==
    (svc.pc \in {"dispatch", "done", "aborted"} /\ all_events # <<>>) =>
        \A i \in DOMAIN all_events :
            LET e == all_events[i]
                matches ==
                    \/ \E k \in DOMAIN config.priority_models :
                           StrLower(config.priority_models[k].name) = StrLower(e.model_name)
                    \/ \E k \in DOMAIN config.models :
                           /\ config.models[k].is_high_priority
                           /\ StrLower(config.models[k].name) = StrLower(e.model_name)
            IN  /\ e \in Range(buckets.priority) <=> matches
                /\ e.is_priority <=> matches
                /\ matches =>
                       e \notin Range(buckets.announcements) \cup Range(buckets.launches)
                                \cup Range(buckets.leaderboard_events)
                                \cup Range(buckets.other)

\* A routed cycle with an event of the priority model z-image, an event of
\* the high-priority model b, both written in another case by their source,
\* and an event of neither.
C17_Witness ==
    /\ svc.pc = "dispatch"
    /\ config.models[2].is_high_priority
    /\ \E e \in Range(buckets.priority) : e.model_name = "Z-Image" /\ e.is_priority
    /\ \E e \in Range(buckets.priority) : e.model_name = "B" /\ e.is_priority
    /\ \E i \in DOMAIN all_events :
           ~all_events[i].is_priority /\ all_events[i] \notin Range(buckets.priority)

(***************************************************************************)
(* One call of the release-stage classifier (SpecStage)                    *)
(***************************************************************************)

\* The longest text, in words.
MaxWords == 3

\* The words of a text: an announcement keyword and a launch keyword, each
\* in two cases, a letter of no keyword and the blank.
StageWords ==
    {<<"R", "C">>, <<"r", "c">>, <<"v", "1", ".">>, <<"V", "1", ".">>, <<"x">>, <<" ">>}

RECURSIVE TextsOf(_)
TextsOf(n) ==
    IF n = 0 THEN {<<>>}
    ELSE LET shorter == TextsOf(n - 1)
         IN  shorter \cup {w \o t : w \in StageWords, t \in shorter}

InitStage ==
    /\ InitLBVars
    /\ InitAxVars
    /\ InitSvcVars
    /\ gh_state = GHAbsent
    /\ gh_responses = [commits |-> NotRequested, releases |-> NotRequested,
                       repo |-> NotRequested, has_releases |-> NotRequested]
    /\ gh_result = [calls |-> 0, raised |-> FALSE, events |-> <<>>,
                    state |-> GHEmptyState]
    /\ gh_stage \in {[text |-> t, is_prerelease |-> p, called |-> FALSE, stage |-> UNKNOWN] :
                        t \in TextsOf(MaxWords), p \in BOOLEAN}

DetectStage ==
    /\ ~gh_stage.called
    /\ gh_stage' = [gh_stage EXCEPT
                       !.called = TRUE,
                       !.stage = DetectReleaseStage(gh_stage.text, gh_stage.is_prerelease)]
    /\ UNCHANGED <<gh_state, gh_responses, gh_result, lbVars, axVars, svcVars>>

SpecStage == InitStage /\ [][DetectStage]_vars

\* C18: a call with is_prerelease = true returns ANNOUNCED for every text,
\* the empty text included.
C18_PrereleaseShortCircuit ==
    (gh_stage.called /\ gh_stage.is_prerelease) => gh_stage.stage = ANNOUNCED

\* The text holds a keyword of the list, compared without case.
HoldsKeyword(text, keywords) ==
    \E k \in DOMAIN keywords :
        \E i \in 0..(Len(text) - Len(keywords[k])) :
            \A j \in 1..Len(keywords[k]) : Lower(text[i + j]) = keywords[k][j]

\* C19: a call with is_prerelease = false returns ANNOUNCED for a text that
\* holds an announcement keyword in any case, also when it holds a launch
\* keyword; LAUNCHED for a text that holds a launch keyword and no
\* announcement keyword; UNKNOWN for a text that holds neither.
C19_FirstMatchWins ==
    (gh_stage.called /\ ~gh_stage.is_prerelease) =>
        gh_stage.stage =
            IF HoldsKeyword(gh_stage.text, ANNOUNCEMENT_KEYWORDS) THEN ANNOUNCED
            ELSE IF HoldsKeyword(gh_stage.text, LAUNCH_KEYWORDS) THEN LAUNCHED
            ELSE UNKNOWN

\* A classified text with an upper-case announcement keyword after a launch
\* keyword.
C19_Witness ==
    /\ gh_stage.called
    /\ ~gh_stage.is_prerelease
    /\ gh_stage.text = <<"v", "1", ".", " ", "R", "C">>
    /\ gh_stage.stage = ANNOUNCED

\* C20: in a finished cycle with at least one leaderboard event of a model
\* that is not priority, exactly one delivery attempt was made for those
\* events; it carries all of them, each in the section of its own board and
\* one section per board; and no other attempt carries any of them.
C20_CombinedLeaderboardDispatch ==
    LET IsCombined(e) == e.source = "leaderboard" /\ ~IsPriorityModel(config, e.model_name)
        combined == SelectSeq(all_events, IsCombined)
        carrying == {k \in DOMAIN outbox : \E e \in Range(outbox[k].events) : IsCombined(e)}
    IN  (svc.pc = "done" /\ combined # <<>>) =>
            /\ Cardinality(carrying) = 1
            /\ \A k \in carrying :
                   LET sections == outbox[k].sections
                   IN  /\ outbox[k].events = combined
                       /\ \A e \in Range(combined) :
                              Cardinality({g \in DOMAIN sections :
                                              e \in Range(sections[g].events)}) = 1
                       /\ \A g \in DOMAIN sections :
                              /\ sections[g].events # <<>>
                              /\ \A e \in Range(sections[g].events) :
                                     /\ e \in Range(combined)
                                     /\ e.leaderboard = sections[g].leaderboard
                       /\ \A g \in DOMAIN sections : \A h \in DOMAIN sections :
                              sections[g].leaderboard = sections[h].leaderboard => g = h

\* A finished cycle whose combined message has two sections, one of them
\* with more than one event, sent after a priority leaderboard event went
\* out on its own.
C20_Witness ==
    /\ svc.pc = "done"
    /\ \E k \in DOMAIN outbox :
           /\ outbox[k].kind = "leaderboard"
           /\ Len(outbox[k].sections) = 2
           /\ \E g \in DOMAIN outbox[k].sections : Len(outbox[k].sections[g].events) >= 2
    /\ \E k \in DOMAIN outbox :
           outbox[k].kind = "priority" /\ outbox[k].events[1].source = "leaderboard"

(***************************************************************************)
(* The dispatch of run_once for a list of events check_all returned, under *)
(* several routing tables (SpecDispatch)                                   *)
(***************************************************************************)

\* Config.from_dict: the default webhook, set or empty, and channel_webhooks:
\* the channels that have a webhook, and the event_routing keys that name
\* one of them (new_commit and github here).
DispatchConfigs ==
    {[SvcConfig(TRUE, FALSE) EXCEPT !.slack_webhook_url = url, !.slack_channels = channels] :
        url \in {"hook-default", ""},
        channels \in {[leaderboard |-> "hook-leaderboard"],
                      [announcements |-> "hook-announcements",
                       new_commit |-> "hook-announcements"],
                      [launches |-> "hook-launches", github |-> "hook-launches"]}}

\* Events of the watchers: commits of Flux of unknown, announced and launched
\* stage, a commit of the priority model, and a new leaderboard entry.
DispatchEvents ==
    {CommitEvent("Flux", [sha |-> 1, message |-> TextFix]),
     CommitEvent("Flux", [sha |-> 2, message |-> TextWIP]),
     CommitEvent("Flux", [sha |-> 3, message |-> TextV1]),
     CommitEvent("Z-Image", [sha |-> 4, message |-> TextFix]),
     NewEntryEvent("text-to-image",
                   {[name |-> "B", rank |-> 1, elo |-> 1000, creator |-> "Lab"]}, "B")}

\* check_all returned one or two events: run_once is about to route them.
InitDispatch ==
    /\ InitLBVars
    /\ InitAxVars
    /\ InitGHVars
    /\ store = EmptyStore
    /\ svc = [CycleStart EXCEPT !.pc = "route", !.i = Len(Watchers) + 1]
    /\ all_events \in {<<e>> : e \in DispatchEvents}
                          \cup {<<e, f>> : e \in DispatchEvents, f \in DispatchEvents}
    /\ checks = <<>>
    /\ buckets = NoBuckets
    /\ outbox = <<>>
    /\ config \in DispatchConfigs
    /\ notifier = NewNotifier(config)
    /\ watchers = Watchers
    /\ daemon = NoDaemon

NextDispatch ==
    \/ Route
    \/ DeliverPriority
    \/ DeliverCombined
    \/ DeliverEvent

SpecDispatch == InitDispatch /\ [][NextDispatch]_vars

\* C21: every send of an event of the announcements bucket goes to the
\* endpoint of the 'announcements' channel when the routing table has one
\* and to the default endpoint otherwise, and likewise for the launches
\* bucket and the 'launches' channel, whatever the table holds for the type
\* or the source of the event.
C21_AnnouncementLaunchRouting ==
    \A k \in DOMAIN outbox :
        outbox[k].kind \in {"announcements", "launches"} =>
            outbox[k].url = IF outbox[k].kind \in DOMAIN config.slack_channels
                            THEN config.slack_channels[outbox[k].kind]
                            ELSE config.slack_webhook_url

\* C22: when the cycle is over, each event of the 'other' bucket has had a
\* delivery attempt of its own, and every such attempt went to the default
\* endpoint, whatever the routing table.
C22_OtherEventRouting ==
    svc.pc = "done" =>
        /\ \A i \in DOMAIN buckets.other :
               \E k \in DOMAIN outbox :
                   outbox[k].kind = "other" /\ outbox[k].events = <<buckets.other[i]>>
        /\ Cardinality({k \in DOMAIN outbox : outbox[k].kind = "other"}) = Len(buckets.other)
        /\ \A k \in DOMAIN outbox :
               outbox[k].kind = "other" => outbox[k].url = config.slack_webhook_url

(***************************************************************************)
(* Claims about the cycles of the service (Spec), continued                *)
(***************************************************************************)

\* C23: when a watcher's check_updates returns without raising, the step of
\* check_all that handles it stores the returned state under the watcher's
\* key and under no other key, with or without events and on a first run or
\* not, so that the key no longer reads as a first run; and a key that has a
\* state keeps having one.
C23_UnconditionalPersistence ==
    [][/\ Len(checks') = Len(checks) + 1 =>
              LET check == checks'[Len(checks')]
              IN  ~check.raised =>
                      /\ store'[KeyOf(check)] = [present |-> TRUE, st |-> check.new_state]
                      /\ ~IsFirstRun(GetState(store', KeyOf(check)))
                      /\ \A key \in DOMAIN store \ {KeyOf(check)} : store'[key] = store[key]
                      /\ \A earlier \in Range(checks) : KeyOf(earlier) # KeyOf(check)
       /\ \A key \in DOMAIN store : store[key].present => store'[key].present]_vars

\* A first run that returned events, which were dropped, and whose state was
\* stored.
C23_Witness ==
    \E i \in DOMAIN checks :
        /\ ~checks[i].raised
        /\ ~checks[i].last_state.present
        /\ checks[i].events # <<>>
        /\ store[KeyOf(checks[i])] = [present |-> TRUE, st |-> checks[i].new_state]

\* C24: without an API key the leaderboard watcher's check fetches no board,
\* returns no event and returns the prior state, the empty mapping when there
\* was none; the state is stored, the aggregated list is left as it was, and
\* the cycle goes on to route that list or ends when it is empty.
C24_MissingApiKey ==
    [][(~lb_api_key /\ Len(checks') = Len(checks) + 1
            /\ WatcherOf(checks'[Len(checks')]).source_name = "leaderboard") =>
        LET check == checks'[Len(checks')]
        IN  /\ check.fetched = <<>>
            /\ ~check.raised
            /\ check.events = <<>>
            /\ check.new_state = IF check.last_state.present THEN check.last_state.st
                                 ELSE EmptyLBState
            /\ store'[KeyOf(check)] = [present |-> TRUE, st |-> check.new_state]
            /\ all_events' = all_events
            /\ svc'.pc = IF all_events = <<>> THEN "done" ELSE "route"]_vars

\* A finished cycle of a service without an API key in which the GitHub
\* watcher's events were delivered.
C24_Witness ==
    /\ ~lb_api_key
    /\ svc.pc = "done"
    /\ outbox # <<>>
    /\ \E i \in DOMAIN checks :
           WatcherOf(checks[i]).source_name = "leaderboard" /\ checks[i].fetched = <<>>

\* C25: a delivery attempt is made only after every watcher of the cycle has
\* been checked and the list has been split; the attempts come in the order
\* priority events, combined leaderboard message, announcements, launches,
\* other events; a cycle without events makes none; and the split is made
\* once in a cycle.
C25_DispatchOrdering ==
    [][/\ outbox' # <<>> =>
              /\ {checks'[i].i : i \in DOMAIN checks'} = DOMAIN Watchers
              /\ all_events' # <<>>
              /\ buckets' = RouteEvents(config', all_events')
              /\ LET Place(kind) ==
                         CASE kind = "priority" -> 1
                           [] kind = "leaderboard" -> 2
                           [] kind = "announcements" -> 3
                           [] kind = "launches" -> 4
                           [] kind = "other" -> 5
                 IN  \A k \in DOMAIN outbox' : \A l \in DOMAIN outbox' :
                         k < l => Place(outbox'[k].kind) <= Place(outbox'[l].kind)
       /\ buckets' # buckets => (buckets = NoBuckets \/ buckets' = NoBuckets)]_vars

\* A finished cycle with a priority send, the combined message, an
\* announcement and a launch.
C25_Witness ==
    /\ svc.pc = "done"
    /\ \A kind \in {"priority", "leaderboard", "announcements", "launches"} :
           \E k \in DOMAIN outbox : outbox[k].kind = kind

(***************************************************************************)
(* The construction of the service's watchers from a configuration         *)
(* (SpecSetup)                                                             *)
(***************************************************************************)

\* Configurations of up to two models named Flux or Z-Image, each with or
\* without a GitHub repository (one of two) and an arXiv query, with the
\* leaderboards enabled or not.
SetupConfigs ==
    LET Models == {ModelConfig(name, FALSE, github, arxiv_query) :
                      name \in {"Flux", "Z-Image"},
                      github \in {"", "org/a", "org/b"},
                      arxiv_query \in {"", "q"}}
    IN  {[SvcConfig(TRUE, FALSE) EXCEPT !.models = models, !.leaderboards_enabled = enabled] :
            models \in {<<>>} \cup {<<m>> : m \in Models}
                              \cup {<<m, n>> : m \in Models, n \in Models},
            enabled \in BOOLEAN}

\* WatcherService.__init__ is about to call _setup_watchers.
InitSetup ==
    /\ InitLBVars
    /\ InitAxVars
    /\ InitGHVars
    /\ store = EmptyStore
    /\ InitCycle
    /\ config \in SetupConfigs
    /\ notifier = NewNotifier(config)
    /\ watchers = <<>>
    /\ daemon = NoDaemon

Setup ==
    /\ watchers = <<>>
    /\ watchers' = SetupWatchers(config)
    /\ UNCHANGED <<store, svc, all_events, checks, buckets, outbox, notifier, config,
                   daemon, lbVars, axVars, ghVars>>

SpecSetup == InitSetup /\ [][Setup]_vars

\* C26: no two watchers of a service have the same state key, so that each
\* key is read and written by one watcher only.
C26_OneWriterPerKey ==
    \A i \in DOMAIN watchers : \A j \in DOMAIN watchers :
        i # j => GetStateKey(watchers[i]) # GetStateKey(watchers[j])

(***************************************************************************)
(* Daemon mode: the scheduler of run_daemon and its job (SpecDaemon)       *)
(***************************************************************************)

WatcherJob_TwoInstances == [id |-> "watcher_job", max_instances |-> 2]

\* The job run_daemon adds: run_once under an interval trigger.  add_job is
\* given no max_instances, so the scheduler's default applies: one running
\* instance of the job at most.
WatcherJob == [id |-> "watcher_job", max_instances |-> 1]

\* run_daemon has added the job with next_run_time = now, installed the
\* signal handlers and called scheduler.start(); no run_once was started yet.
InitDaemon ==
    /\ lb_max_rank = max_rank
    /\ lb_api_key \in BOOLEAN
    /\ lb_fetches = NoFetches
    /\ lb_state = Absent
    /\ lb_responses = [b \in Range(LBBoards) |-> TransportError]
    /\ lb_result = NoResult
    /\ InitAxVars
    /\ InitGHVars
    /\ store = EmptyStore
    /\ InitCycle
    /\ config = SvcConfig(TRUE, FALSE)
    /\ notifier = NewNotifier(config)
    /\ watchers = SetupWatchers(config)
    /\ daemon = [state |-> "running", due |-> TRUE, instances |-> 0, skipped |-> FALSE]

\* The interval of the trigger has passed since the job's last fire time;
\* run_once may be running or not.
IntervalElapsed ==
    /\ daemon.state = "running"
    /\ ~daemon.due
    /\ daemon' = [daemon EXCEPT !.due = TRUE]
    /\ UNCHANGED <<store, svc, all_events, checks, buckets, outbox, notifier, config,
                   watchers, lbVars, axVars, ghVars>>

\* The scheduler's loop finds the job due and hands it to its executor,
\* which starts run_once in a worker thread unless max_instances instances
\* of the job are running: then the run is skipped.  Either way the job's
\* next run time moves to the trigger's next fire time.
SubmitJob ==
    /\ daemon.state = "running"
    /\ daemon.due
    /\ IF daemon.instances < WatcherJob.max_instances
       THEN /\ daemon' = [daemon EXCEPT !.due = FALSE, !.instances = daemon.instances + 1]
            /\ svc' = CycleStart
            /\ all_events' = <<>>
            /\ checks' = <<>>
            /\ buckets' = NoBuckets
            /\ outbox' = <<>>
       ELSE /\ daemon' = [daemon EXCEPT !.due = FALSE, !.skipped = TRUE]
            /\ UNCHANGED <<svc, all_events, checks, buckets, outbox>>
    /\ UNCHANGED <<store, notifier, config, watchers, lbVars, axVars, ghVars>>

\* A step of a run_once that is running in a worker thread.
CycleStep ==
    /\ daemon.state \in {"running", "stopped"}
    /\ daemon.instances > 0
    /\ \/ CheckGitHub
       \/ CheckLeaderboard
       \/ Route
       \/ DeliverPriority
       \/ DeliverCombined
       \/ DeliverEvent

\* run_once returned or raised in the worker thread: the executor releases
\* the instance of the job.
JobReturn ==
    /\ daemon.state \in {"running", "stopped"}
    /\ daemon.instances > 0
    /\ svc.pc \in {"done", "aborted"}
    /\ daemon' = [daemon EXCEPT !.instances = daemon.instances - 1]
    /\ UNCHANGED <<store, svc, all_events, checks, buckets, outbox, notifier, config,
                   watchers, lbVars, axVars, ghVars>>

\* SIGINT or SIGTERM: the handler shutdown runs in the main thread, stops
\* the scheduler without waiting for running jobs, and sys.exit(0) raises
\* SystemExit there, which run_daemon catches before it returns.
Shutdown ==
    /\ daemon.state = "running"
    /\ daemon' = [daemon EXCEPT !.state = "stopped"]
    /\ UNCHANGED <<store, svc, all_events, checks, buckets, outbox, notifier, config,
                   watchers, lbVars, axVars, ghVars>>

MayExit_AtOnce(d) == TRUE

\* The handler leaves through sys.exit, which ends the main thread only:
\* the interpreter exits after the executor's worker threads have finished.
MayExit(d) == d.instances = 0

\* The process ends.
ProcessExit ==
    /\ daemon.state = "stopped"
    /\ MayExit(daemon)
    /\ daemon' = [daemon EXCEPT !.state = "exited"]
    /\ UNCHANGED <<store, svc, all_events, checks, buckets, outbox, notifier, config,
                   watchers, lbVars, axVars, ghVars>>

NextDaemon ==
    \/ IntervalElapsed
    \/ SubmitJob
    \/ CycleStep
    \/ JobReturn
    \/ Shutdown
    \/ ProcessExit

SpecDaemon == InitDaemon /\ [][NextDaemon]_vars

\* A run_once is in flight: started by the scheduler and not yet through
\* its last step.
CycleInFlight == daemon.instances > 0 /\ svc.pc \notin {"done", "aborted"}

DelayBefore_FromThird(i) == i > 1

\* if i > 0: time.sleep(1), with i the board's index in leaderboards_to_watch.
DelayBefore(i) == i > 0

\* What the loop of check_updates does from index i on, in order: "sleep"
\* for time.sleep(1), and a board's name for the one request that
\* _check_leaderboard_api makes for it.
RECURSIVE BoardSteps(_, _)
BoardSteps(boards, i) ==
    IF boards = <<>> THEN <<>>
    ELSE (IF Head(boards) \notin ENDPOINTS THEN <<>>
          ELSE (IF DelayBefore(i) THEN <<"sleep">> ELSE <<>>) \o <<Head(boards)>>)
         \o BoardSteps(Tail(boards), i + 1)

\* The longest leaderboards_to_watch list.
MaxBoards == 3

\* Lists of up to MaxBoards boards: two boards of ENDPOINTS and a name that
\* is not one, in any order and with repetitions.
BoardLists ==
    UNION {[1..n -> {"text-to-image", "image-editing", "no-such-board"}] : n \in 0..MaxBoards}

InitPacing ==
    /\ lb_max_rank = max_rank
    /\ lb_api_key \in BOOLEAN
    /\ lb_fetches \in {[NoFetches EXCEPT !.leaderboards_to_watch = boards] : boards \in BoardLists}
    /\ lb_state = Absent
    /\ lb_responses = [b \in Range(LBBoards) |-> TransportError]
    /\ lb_result = NoResult
    /\ InitAxVars
    /\ InitGHVars
    /\ InitSvcVars

\* One check_updates call.
PacingCheck ==
    /\ ~lb_fetches.called
    /\ lb_fetches' = [lb_fetches EXCEPT
                          !.called = TRUE,
                          !.steps = IF ~lb_api_key THEN <<>>
                                    ELSE BoardSteps(lb_fetches.leaderboards_to_watch, 0)]
    /\ UNCHANGED <<lb_max_rank, lb_api_key, lb_state, lb_responses, lb_result,
                   axVars, ghVars, svcVars>>

SpecPacing == InitPacing /\ [][PacingCheck]_vars

\* C29: within one check_updates call, every request for a board other
\* than the call's first is directly preceded by the delay, so no two
\* requests follow each other without it.
C29_BoardFetchPacing ==
    \A k \in DOMAIN lb_fetches.steps :
        (k > 1 /\ lb_fetches.steps[k] # "sleep") => lb_fetches.steps[k - 1] = "sleep"

\* A call that skipped an unknown first board and requested two boards.
C29_Witness ==
    /\ lb_fetches.called
    /\ Len(lb_fetches.leaderboards_to_watch) = 3
    /\ lb_fetches.leaderboards_to_watch[1] = "no-such-board"
    /\ Cardinality({k \in DOMAIN lb_fetches.steps : lb_fetches.steps[k] # "sleep"}) = 2

\* C30: no delivered message carries a leaderboard event about a board that
\* had no snapshot when the cycle's leaderboard check began: the first
\* successful snapshot of a board notifies nothing, in whichever cycle it is
\* taken.
C30_NoInitialFlood ==
    \A a \in DOMAIN outbox :
        outbox[a].outcome = "ok" =>
            \A n \in DOMAIN outbox[a].events :
                LET e == outbox[a].events[n]
                IN  e.source = "leaderboard" =>
                        \E k \in DOMAIN checks :
                            /\ watchers[checks[k].i].source_name = "leaderboard"
                            /\ checks[k].last_state.present
                            /\ checks[k].last_state.st[e.leaderboard].present

(***************************************************************************)
(* Claims about the arXiv watcher across cycles (SpecArxiv), continued     *)
(***************************************************************************)

\* C31: across the calls of a watcher whose state is stored after each call,
\* no paper gets a second new_paper event: a call returns no event for a
\* paper an earlier call returned one for, nor two events for one paper,
\* also once the stored list of IDs has been cut to its cap.
C31_OneNotificationPerPaper ==
    [][/\ \A i \in DOMAIN ax_result'.events :
              ax_result'.events[i].item_id \notin ax_result.notified
       /\ \A i, j \in DOMAIN ax_result'.events :
              ax_result'.events[i].item_id = ax_result'.events[j].item_id => i = j]_vars

(***************************************************************************)
(* Claims about the service (Spec), continued                              *)
(***************************************************************************)

\* C32: no step of run_once changes the contents of the list
\* config.notifications.mention_channel_for, a priority send with the
\* mention override included.
C32_ConfigNotMutated ==
    [][config'.mention_channel_for = config.mention_channel_for]_vars

(***************************************************************************)
(* clear_all_states, then one run_once (SpecClear)                         *)
(***************************************************************************)

\* A configuration that watches two repositories under one model name,
\* which is a priority model or not.
TwoRepoConfig(priority) ==
    [SvcConfig(TRUE, FALSE) EXCEPT
        !.models = <<ModelConfig("Flux", FALSE, "org/a", ""),
                     ModelConfig("Flux", FALSE, "org/b", "")>>,
        !.priority_models = IF priority THEN <<[name |-> "flux", mention_channel |-> TRUE]>>
                            ELSE @]

\* Stores left by earlier cycles: per key no state, or one a check returned.
StoredStores ==
    {[EmptyStore EXCEPT ![GetStateKey(Watchers[1])] = g, ![GetStateKey(Watchers[2])] = l] :
        g \in {GHAbsent,
               [present |-> TRUE,
                st |-> [GHEmptyState EXCEPT !.last_commit_sha = 1, !.repo_known = TRUE]]},
        l \in {Absent,
               [present |-> TRUE, st |-> EmptyLBState],
               [present |-> TRUE,
                st |-> [EmptyLBState EXCEPT ![SvcBoards[1]] =
                           [present |-> TRUE,
                            rankings |-> {[name |-> "B", rank |-> 1, elo |-> 1000,
                                           creator |-> "Lab"]},
                            models |-> <<"B">>, top3 |-> <<"B">>]]]}}

\* main was started with --clear-state: the service is constructed and
\* clear_all_states is about to be called.
InitClear ==
    /\ lb_max_rank = max_rank
    /\ lb_api_key \in BOOLEAN
    /\ lb_fetches = NoFetches
    /\ lb_state = Absent
    /\ lb_responses = [b \in Range(LBBoards) |-> TransportError]
    /\ lb_result = NoResult
    /\ InitAxVars
    /\ InitGHVars
    /\ store \in StoredStores
    /\ svc = [CycleStart EXCEPT !.pc = "clear"]
    /\ all_events = <<>>
    /\ checks = <<>>
    /\ buckets = NoBuckets
    /\ outbox = <<>>
    /\ config \in {SvcConfig(TRUE, FALSE), TwoRepoConfig(FALSE), TwoRepoConfig(TRUE)}
    /\ notifier = NewNotifier(config)
    /\ watchers = SetupWatchers(config)
    /\ daemon = NoDaemon

\* StateManager.clear_all_states deletes every row; main returns, and the
\* next start of main calls run_once.
ClearAllStates ==
    /\ svc.pc = "clear"
    /\ store' = [key \in DOMAIN store |-> [store[key] EXCEPT !.present = FALSE]]
    /\ svc' = CycleStart
    /\ UNCHANGED <<all_events, checks, buckets, outbox, notifier, config, watchers, daemon,
                   lbVars, axVars, ghVars>>

\* The run after the clearing has no send_leaderboard_combined: the
\* leaderboard watcher's check is a first run, so the leaderboard bucket
\* stays empty.
NextClear ==
    \/ ClearAllStates
    \/ CheckGitHub
    \/ CheckLeaderboard
    \/ Route
    \/ DeliverPriority
    \/ DeliverEvent

SpecClear == InitClear /\ [][NextClear]_vars

\* C33: after clear_all_states every key is absent from the store, and in
\* the run_once that follows every watcher is checked as on a first run, no
\* event is aggregated, nothing is sent, and a state is stored for every
\* watcher whose check_updates returned.
C33_ClearStateThenRun ==
    svc.pc # "clear" =>
        /\ checks = <<>> => \A key \in DOMAIN store : ~store[key].present
        /\ \A k \in DOMAIN checks :
               /\ IsFirstRun(checks[k].last_state)
               /\ ~checks[k].raised => store[KeyOf(checks[k])].present
        /\ all_events = <<>>
        /\ outbox = <<>>

\* C34: the number of successful sends tallied by run_once never exceeds
\* the number of events of the cycle's list, whatever the sends do.
C34_SentBoundedByEvents ==
    svc.sent <= Len(all_events)

\* A finished cycle with two events or more, one send of which failed, and
\* one whose sends all succeeded.
C34_Witness ==
    /\ svc.pc = "done"
    /\ Len(all_events) >= 2
    /\ svc.sent = Len(all_events) - 1
    /\ \E k \in DOMAIN outbox : outbox[k].outcome = "failed"

(***************************************************************************)
(* Claims about one call of the GitHub watcher (SpecGH), continued         *)
(***************************************************************************)

\* C35: every release or repository event the GitHub watcher returns has
\* the type release_launched exactly when its stage is LAUNCHED and the type
\* release_announced exactly when its stage is ANNOUNCED, so that run_once
\* puts a release_announced event of a non-priority model into the
\* announcements bucket.
C35_ReleaseTypeAgreesWithStage ==
    \A i \in DOMAIN gh_result.events :
        LET e == gh_result.events[i]
        IN  e.event_type \in {"release_launched", "release_announced"} =>
                /\ e.event_type = "release_launched" <=> e.release_stage = LAUNCHED
                /\ e.event_type = "release_announced" <=> e.release_stage = ANNOUNCED
                /\ e.event_type = "release_announced" =>
                       RouteEvents(SvcConfig(TRUE, FALSE), <<e>>).announcements = <<e>>

TrackedNames(response) ==
    {response.data[k].name : k \in {j \in DOMAIN response.data :
                                       ~(response.data[j].rank > lb_max_rank)}}

\* The board's listing was fetched: a 200 answer, whose data may be empty.
Listed(response) == response.kind = "http" /\ response.status = 200

\* The events of a call that tell of model m on board b as a new entry or
\* as a change of rank.
EntryOrMoveEvents(events, b, m) ==
    {k \in DOMAIN events :
        /\ events[k].leaderboard = b
        /\ events[k].model_name = m
        /\ events[k].event_type \in {"leaderboard_new_entry", "leaderboard_rank_change"}}

\* C37: a model of a board's previous snapshot that is not in the tracked
\* part of the listing just fetched gets no new-entry and no rank-change
\* event in that check and is no longer in the stored snapshot; a model that
\* is not in the board's snapshot and comes back within max_rank gets a
\* new-entry event and no rank-change event.
C37_LeaveAndReenter ==
    [][\A b \in Range(LBBoards) : \A m \in {"A", "B", "C"} :
          /\ (/\ m \in Range(lb_state.st[b].models)
              /\ Listed(lb_responses'[b])
              /\ m \notin TrackedNames(lb_responses'[b]))
                => /\ EntryOrMoveEvents(lb_result'.events, b, m) = {}
                   /\ m \notin Range(lb_state'.st[b].models)
                   /\ ~HasRanking(lb_state'.st[b].rankings, m)
          /\ (/\ lb_state.st[b].present
              /\ m \notin Range(lb_state.st[b].models)
              /\ Listed(lb_responses'[b])
              /\ m \in TrackedNames(lb_responses'[b]))
                => /\ EntryOrMoveEvents(lb_result'.events, b, m) # {}
                   /\ \A k \in EntryOrMoveEvents(lb_result'.events, b, m) :
                          lb_result'.events[k].event_type = "leaderboard_new_entry"
      ]_vars

(***************************************************************************)
(* SpecCommits: the GitHub watcher, call after call, on a repository whose *)
(* history only grows.  A sha is the commit's number in that history, so   *)
(* the larger sha is the newer commit.                                     *)
(***************************************************************************)

\* The number of commits the repository comes to hold.
MaxSha == 7

CommitOf(n) ==
    [sha |-> n,
     message |-> IF n % 3 = 0 THEN TextV1 ELSE IF n % 3 = 1 THEN TextFix ELSE TextWIP]

\* A page of GET /repos/{repo}/commits, newest first: the commits hi down
\* to lo.
CommitPage(hi, lo) == [k \in 1..(hi - lo + 1) |-> CommitOf(hi - k + 1)]

\* The pages a call can get when the stored sha is last_commit_sha: the
\* head of the history is the stored commit or a later one.
CommitPages(last_commit_sha) ==
    {<<>>} \cup
    {CommitPage(p[1], p[2]) :
        p \in {q \in (1..MaxSha) \X (1..MaxSha) :
                  /\ q[2] <= q[1]
                  /\ last_commit_sha = None \/ q[1] >= last_commit_sha}}

\* The answers to the requests of one call: the commit listing fails, is
\* refused or gives a page; the other requests get no answer.
CommitResponses(state) ==
    {[commits |-> c, releases |-> TransportError,
      repo |-> IF state.st.repo_known THEN NotRequested ELSE TransportError,
      has_releases |-> NotRequested] :
        c \in {TransportError, Http(404, <<>>)}
                 \cup {Http(200, l) : l \in CommitPages(state.st.last_commit_sha)}}

\* The watcher has no stored state, or one with a known repository and any
\* commit, or none, as last_commit_sha.
InitCommits ==
    /\ InitLBVars
    /\ InitAxVars
    /\ InitSvcVars
    /\ gh_state \in {GHAbsent} \cup
                    {[present |-> TRUE,
                      st |-> [last_commit_sha |-> c, last_release_id |-> None,
                              repo_known |-> TRUE, repo_created_at |-> 1]] :
                        c \in {None} \cup 1..MaxSha}
    /\ gh_responses = [commits |-> NotRequested, releases |-> NotRequested,
                       repo |-> NotRequested, has_releases |-> NotRequested]
    /\ gh_result = [calls |-> 0, raised |-> FALSE, events |-> <<>>,
                    state |-> GHEmptyState, last_check_state |-> GHAbsent]
    /\ gh_stage = NoStageCall

\* One call of check_updates: the caller passes the stored state and stores
\* the state returned.  last_check_state keeps the state passed.
CommitCheck ==
    \E responses \in CommitResponses(gh_state) :
        LET r == GitHubCheckUpdates(GHModel, gh_state, responses)
        IN  /\ gh_responses' = responses
            /\ gh_state' = IF r.raised THEN gh_state
                            ELSE [present |-> TRUE, st |-> r.state]
            /\ gh_result' = [calls |-> 1, raised |-> r.raised,
                              events |-> r.events, state |-> r.state,
                              last_check_state |-> gh_state]
            /\ UNCHANGED <<gh_stage, lbVars, axVars, svcVars>>

SpecCommits == InitCommits /\ [][CommitCheck]_vars

\* The shas of the new_commit events of the last call, in order.
NewCommitShas ==
    LET evs == SelectSeq(gh_result.events, LAMBDA e : e.event_type = "new_commit")
    IN  [k \in DOMAIN evs |-> evs[k].sha]

\* The shas of the page fetched that are newer than sha, newest first.
NewerThan(sha) ==
    LET newer == SelectSeq(gh_responses.commits.data, LAMBDA c : c.sha > sha)
    IN  [k \in DOMAIN newer |-> newer[k].sha]

\* C38: after a call whose commit fetch gave a page with commits on it, the
\* state returned has the newest fetched commit as last_commit_sha; if a
\* last_commit_sha was stored and is not that commit, the new_commit events
\* are those of the fetched commits newer than the stored one, newest
\* first, cut to the first 5; with no last_commit_sha stored there is no
\* new_commit event.
C38_CommitDiff ==
    gh_result.calls = 1 =>
        LET stored == gh_result.last_check_state.st.last_commit_sha
            page == gh_responses.commits.data
            fetched == gh_responses.commits.kind = "http"
                       /\ gh_responses.commits.status = 200 /\ page # <<>>
        IN  /\ fetched => gh_result.state.last_commit_sha = page[1].sha
            /\ (fetched /\ stored # None /\ stored # page[1].sha)
                  => /\ NewCommitShas = Prefix(NewerThan(stored), 5)
                     /\ Len(NewCommitShas) <= 5
            /\ stored = None => NewCommitShas = <<>>

\* A call with a stored commit that found six newer commits on the page and
\* returned events for the five newest.
C38_Witness ==
    /\ gh_result.calls = 1
    /\ gh_result.last_check_state.st.last_commit_sha = 1
    /\ Len(NewerThan(1)) = 6
    /\ NewCommitShas = <<7, 6, 5, 4, 3>>
    /\ gh_state.st.last_commit_sha = 7

====
